---- MODULE Spec2Model ----
(***************************************************************************)
(* The hub of src/server/index.js: the device session registry and the     *)
(* command relay.  Device connections (WebSocket) register, answer and     *)
(* close; dashboard callers (HTTP) relay commands and read the stores.     *)
(*                                                                         *)
(* Encoding of JavaScript values:                                          *)
(*   - a JS Map is the sequence of its values in insertion order; every    *)
(*     value stored in connectedDevices and deviceHistory carries its key  *)
(*     in the field id, as in the source;                                  *)
(*   - the per-device caches are functions whose DOMAIN is the key set;    *)
(*   - a JSON payload value is kept as a string naming it ("[]", "null",   *)
(*     "[k1]");  "undefined" is an absent key, "" the empty string;        *)
(*   - a Date is the integer clock value at which it was taken, NoDate     *)
(*     stands for undefined/null;                                          *)
(*   - a WebSocket object is its index 1..MaxConns; Junk is a JSON value   *)
(*     found where a WebSocket is expected, NoWs an absent key.            *)
(***************************************************************************)
EXTENDS Integers, Sequences, FiniteSets, TLC

\* ---------------------------------------------------------------- bounds
MaxConns == 2        \* WebSocket connections accepted during a run
MaxTime == 1         \* last value of the millisecond clock
MaxDevices == 2      \* distinct deviceIds that register
MaxRegs == 3         \* register messages processed during a run of Spec
MaxRegsData == 2     \* register messages processed during a run of SpecData
MaxMsgs == 2         \* response messages processed during a run
MaxInserted == 2     \* entries ever inserted into one bounded history beyond its capacity
MaxBrowses == 2      \* browse-directory commands written to one device during a run of SpecBrowse
MaxSockets == 3      \* WebSockets one connection hook creates during a run
MaxBeatSockets == 2  \* WebSockets the heartbeat hook creates during a run
MaxHistory == 3      \* entries of the dashboard's pathHistory
MaxPending == 2      \* browse-directory requests of the dashboard awaiting their response

\* ------------------------------------------------------ program constants
DefaultPath == "/storage/emulated/0"
DefaultFormat == "png"
ClipboardCap == 50
NotificationsCap == 100

\* --------------------------------------------------------- value encoding
Undefined == "undefined"
Null == "null"
NoDate == 0 - 1
Junk == 0
NoWs == 0 - 1
EmptyArray == "[]"
EmptySms == "{messages:[],error:null}"

Conns == 1..MaxConns

\* ids a device supplies in register; "" is an absent (falsy) deviceId.
\* "Pixel-1" is also the id the server generates for "Pixel" at time 1.
SuppliedIds == {"d1", "Pixel-1", ""}
DeviceNames == {"Pixel"}
UnknownId == "nobody"

VARIABLES
    now,                \* Date.now() / new Date()
    connState,          \* readyState of every WebSocket: "none", "open", "closed"
    connectedDevices,   \* Map deviceId -> live session
    deviceHistory,      \* Map deviceId -> history record
    deviceScreenshots,  \* Map deviceId -> latest screenshot
    deviceClipboard,    \* Map deviceId -> clipboard history
    deviceNotifications,\* Map deviceId -> notification history
    deviceApps,         \* Map deviceId -> latest list of installed apps
    devicePermissions,  \* Map deviceId -> latest list of permissions
    deviceWifi,         \* Map deviceId -> latest wifi scan
    regCount,           \* history variable: register messages processed per deviceId
    regConn,            \* history variable: the connection of the latest register per deviceId
    msgCount,           \* history variable: response messages processed in a run of SpecData
    allClipboard,       \* history variable: every clipboard entry received, newest first
    allNotifications,   \* history variable: every notification received, newest first
    handled,            \* history variable: the kind of the latest message that stored no payload
    browses,            \* in flight, in SpecBrowse: the browse commands written per device, and how many were answered
    reconnectHook,      \* the refs of useDeviceConnection(serverIP, serverPort, autoReconnect) and its sockets
    heartbeatHook,      \* the refs and the state of useDeviceConnection() with heartbeat, its sockets and timers
    deviceManager       \* the dashboard's DeviceManager: currentPath, pathHistory

vars == <<now, connState, connectedDevices, deviceHistory, deviceScreenshots,
          deviceClipboard, deviceNotifications, deviceApps, devicePermissions,
          deviceWifi, regCount, regConn, msgCount,
          allClipboard, allNotifications, handled, browses,
          reconnectHook, heartbeatHook, deviceManager>>

\* the device app and the dashboard, the programs at the other ends of the hub
client == <<reconnectHook, heartbeatHook, deviceManager>>

ghosts == <<regCount, regConn, msgCount, allClipboard, allNotifications, handled, browses>>

snapshots == <<deviceApps, devicePermissions, deviceWifi>>

stores == <<connectedDevices, deviceHistory, deviceScreenshots,
            deviceClipboard, deviceNotifications, snapshots>>

\* ------------------------------------------------------------ Map helpers
Has(m, k) == \E i \in 1..Len(m) : m[i].id = k

IndexOf(m, k) == CHOOSE i \in 1..Len(m) : m[i].id = k

Get(m, k) == m[IndexOf(m, k)]

\* Map.prototype.set: an existing key keeps its position, a new key goes last
Put(m, k, v) == IF Has(m, k) THEN [m EXCEPT ![IndexOf(m, k)] = v] ELSE Append(m, v)

Keys(m) == {m[i].id : i \in 1..Len(m)}

Min(a, b) == IF a < b THEN a ELSE b

\* JavaScript truthiness of the encoded values, and v || d
Falsy(v) == v \in {Undefined, Null, ""}

OrElse(v, d) == IF Falsy(v) THEN d ELSE v

\* for (const [deviceId, device] of connectedDevices.entries()) { if (device.ws === ws) {...; break} }
\* the index of the first session bound to ws, 0 when there is none
FirstBound(m, ws) ==
    IF \E i \in 1..Len(m) : m[i].ws = ws
    THEN CHOOSE i \in 1..Len(m) : m[i].ws = ws /\ \A j \in 1..(i - 1) : m[j].ws # ws
    ELSE 0

InitHub ==
    /\ now = 0
    /\ connState = [c \in Conns |-> "none"]
    /\ connectedDevices = <<>>
    /\ deviceHistory = <<>>
    /\ deviceScreenshots = <<>>
    /\ deviceClipboard = <<>>
    /\ deviceNotifications = <<>>
    /\ deviceApps = <<>>
    /\ devicePermissions = <<>>
    /\ deviceWifi = <<>>
    /\ regCount = <<>>
    /\ regConn = <<>>
    /\ msgCount = 0
    /\ allClipboard = <<>>
    /\ allNotifications = <<>>
    /\ handled = ""
    /\ browses = <<>>

\* useDeviceConnection(serverIP, serverPort, autoReconnect) before its first
\* connect(): wsRef, reconnectTimeoutRef and deviceNameRef as useRef makes them.
\* sockets are the WebSockets the hook created, by their readyState;
\* disconnected is a history field: disconnect() was called and connect()
\* has not been called since.
NewReconnectHook(autoReconnect) ==
    [sockets |-> <<>>, wsRef |-> 0, reconnectTimeoutRef |-> "null", deviceNameRef |-> "",
     autoReconnect |-> autoReconnect, disconnected |-> FALSE]

\* useDeviceConnection() with heartbeat before its first connect(): the state
\* of useState, what the closures of the latest render see of it, the refs,
\* the WebSockets created, the timers that are set and the reconnect() calls
\* that are waiting; pinged is a history field, the readyState of the socket
\* the latest ping was written to.
Disconnected == [isConnecting |-> FALSE, isConnected |-> FALSE]

NewHeartbeatHook ==
    [connectionState |-> Disconnected, rendered |-> Disconnected,
     sockets |-> <<>>, wsRef |-> 0, heartbeatIntervalRef |-> 0,
     intervals |-> {}, intervalsSet |-> 0, connectionTimeouts |-> {},
     reconnects |-> <<>>, pinged |-> ""]

\* new DeviceManager() with a device selected: currentPath '/', pathHistory [];
\* isOnline is selectedDevice.isOnline, requests are the browse-directory
\* requests awaiting their response, hubPath is the currentPath the hub
\* holds for the device ("" before the first refresh shows one)
RootPath == "/"

NewDeviceManager ==
    [currentPath |-> RootPath, pathHistory |-> <<>>, isOnline |-> TRUE,
     requests |-> <<>>, hubPath |-> ""]

Init ==
    /\ InitHub
    /\ reconnectHook = NewReconnectHook(TRUE)
    /\ heartbeatHook = NewHeartbeatHook
    /\ deviceManager = NewDeviceManager

\* the clock advances between events
Tick ==
    /\ now < MaxTime
    /\ now' = now + 1
    /\ UNCHANGED <<connState, stores, ghosts>>
    /\ UNCHANGED client

\* wss.on('connection'): sockets are handed out in index order
Connect(c) ==
    /\ connState[c] = "none"
    /\ \A b \in Conns : b < c => connState[b] # "none"
    /\ connState' = [connState EXCEPT ![c] = "open"]
    /\ UNCHANGED <<now, stores, ghosts>>
    /\ UNCHANGED client

\* ws.on('close')
CloseHistory(h, id, t) ==
    IF Has(h, id)
    THEN Put(h, id, [Get(h, id) EXCEPT !.lastSeen = t, !.isOnline = "false"])
    ELSE h

\* mutant: the close removes the session of the connection from the map
CloseSessions_removes(m, c, t) ==
    IF FirstBound(m, c) = 0 THEN m
    ELSE [i \in 1..(Len(m) - 1) |-> IF i < FirstBound(m, c) THEN m[i] ELSE m[i + 1]]

\* mutant: the close of any connection marks every session offline
CloseSessions_marksAll(m, c, t) ==
    [i \in 1..Len(m) |-> [m[i] EXCEPT !.isOnline = FALSE, !.lastSeen = t]]

CloseSessions(m, c, t) ==
    IF FirstBound(m, c) = 0 THEN m
    ELSE [m EXCEPT ![FirstBound(m, c)].isOnline = FALSE,
                   ![FirstBound(m, c)].lastSeen = t]

Close(c) ==
    /\ connState[c] = "open"
    /\ connState' = [connState EXCEPT ![c] = "closed"]
    /\ deviceHistory' =
          IF FirstBound(connectedDevices, c) = 0 THEN deviceHistory
          ELSE CloseHistory(deviceHistory, connectedDevices[FirstBound(connectedDevices, c)].id, now)
    /\ connectedDevices' = CloseSessions(connectedDevices, c, now)
    /\ UNCHANGED <<now, deviceScreenshots, deviceClipboard, deviceNotifications, ghosts, snapshots>>
    /\ UNCHANGED client

\* ------------------------------------------------------------- register
RegisterPayloads ==
    [deviceId : SuppliedIds, deviceName : DeviceNames, ws : {NoWs, Junk}]

\* message.data.deviceId || `${message.data.deviceName}-${Date.now()}`
RegisterId(data, t) ==
    IF data.deviceId # "" THEN data.deviceId
    ELSE data.deviceName \o "-" \o ToString(t)

\* mutant: firstSeen is taken anew at every registration
HistoryRecord_newFirstSeen(h, id, data, t) ==
    [id |-> id,
     deviceName |-> data.deviceName,
     firstSeen |-> t,
     totalConnections |-> (IF Has(h, id) THEN Get(h, id).totalConnections ELSE 0) + 1,
     lastSeen |-> NoDate,
     isOnline |-> Undefined]

\* deviceHistory.set(deviceId, {...message.data, id, firstSeen, totalConnections})
\* the record is rebuilt: lastSeen and isOnline of the old record are not carried over
HistoryRecord(h, id, data, t) ==
    [id |-> id,
     deviceName |-> data.deviceName,
     firstSeen |-> IF Has(h, id) THEN Get(h, id).firstSeen ELSE t,
     totalConnections |-> (IF Has(h, id) THEN Get(h, id).totalConnections ELSE 0) + 1,
     lastSeen |-> NoDate,
     isOnline |-> Undefined]

\* mutant: a re-registration keeps the data of the session it replaces
SessionRecord_keepsData(ws, id, data, t) ==
    IF Has(connectedDevices, id)
    THEN [Get(connectedDevices, id) EXCEPT
             !.ws = IF data.ws = NoWs THEN ws ELSE data.ws,
             !.deviceName = data.deviceName, !.lastSeen = t, !.isOnline = TRUE]
    ELSE [ws |-> IF data.ws = NoWs THEN ws ELSE data.ws,
          deviceName |-> data.deviceName, id |-> id, lastSeen |-> t, isOnline |-> TRUE,
          location |-> Null, contacts |-> EmptyArray, files |-> EmptyArray,
          sms |-> EmptySms, callLog |-> EmptyArray, currentPath |-> DefaultPath,
          latestScreenshot |-> NoDate]

\* connectedDevices.set(deviceId, {ws, ...message.data, id, lastSeen, isOnline, ...})
\* a ws key of the payload is spread after ws and replaces it
SessionRecord(ws, id, data, t) ==
    [ws |-> IF data.ws = NoWs THEN ws ELSE data.ws,
     deviceName |-> data.deviceName,
     id |-> id,
     lastSeen |-> t,
     isOnline |-> TRUE,
     location |-> Null,
     contacts |-> EmptyArray,
     files |-> EmptyArray,
     sms |-> EmptySms,
     callLog |-> EmptyArray,
     currentPath |-> DefaultPath,
     latestScreenshot |-> NoDate]

Bump(f, k) == IF k \in DOMAIN f THEN [f EXCEPT ![k] = @ + 1] ELSE (k :> 1) @@ f

Assign(f, k, v) == IF k \in DOMAIN f THEN [f EXCEPT ![k] = v] ELSE (k :> v) @@ f

TotalRegs == LET S == DOMAIN regCount
                 RECURSIVE Sum(_)
                 Sum(T) == IF T = {} THEN 0
                           ELSE LET k == CHOOSE k \in T : TRUE IN regCount[k] + Sum(T \ {k})
             IN Sum(S)

\* mutant: a registration starts the device afresh, its caches included
Register_clearsCaches(c, data) ==
    LET id == RegisterId(data, now) IN
    /\ connState[c] = "open"
    /\ deviceHistory' = Put(deviceHistory, id, HistoryRecord(deviceHistory, id, data, now))
    /\ connectedDevices' = Put(connectedDevices, id, SessionRecord(c, id, data, now))
    /\ regCount' = Bump(regCount, id)
    /\ regConn' = Assign(regConn, id, c)
    /\ deviceScreenshots' = [k \in DOMAIN deviceScreenshots \ {id} |-> deviceScreenshots[k]]
    /\ deviceClipboard' = [k \in DOMAIN deviceClipboard \ {id} |-> deviceClipboard[k]]
    /\ deviceNotifications' = [k \in DOMAIN deviceNotifications \ {id} |-> deviceNotifications[k]]
    /\ UNCHANGED <<now, connState, msgCount, allClipboard, allNotifications, handled,
                   browses, snapshots>>
    /\ UNCHANGED client
Register(c, data) ==
    LET id == RegisterId(data, now) IN
    /\ connState[c] = "open"
    /\ deviceHistory' = Put(deviceHistory, id, HistoryRecord(deviceHistory, id, data, now))
    /\ connectedDevices' = Put(connectedDevices, id, SessionRecord(c, id, data, now))
    /\ regCount' = Bump(regCount, id)
    /\ regConn' = Assign(regConn, id, c)
    /\ UNCHANGED <<now, connState, deviceScreenshots, deviceClipboard,
                   deviceNotifications, msgCount, allClipboard, allNotifications, handled, browses, snapshots>>
    /\ UNCHANGED client

\* ------------------------------------------------------ device responses
\* mutant: the scan stops at the first session, whatever its connection
updateDeviceData_firstSession(m, ws, field, data, t) ==
    IF Len(m) = 0 THEN m
    ELSE [m EXCEPT ![1] = [[@ EXCEPT ![field] = data] EXCEPT !.lastSeen = t]]

\* updateDeviceData(ws, field, data)
updateDeviceData(m, ws, field, data, t) ==
    IF FirstBound(m, ws) = 0 THEN m
    ELSE [m EXCEPT ![FirstBound(m, ws)] = [[@ EXCEPT ![field] = data] EXCEPT !.lastSeen = t]]

BoundId(m, ws) == IF FirstBound(m, ws) = 0 THEN "" ELSE m[FirstBound(m, ws)].id

\* the message type of each response that is stored with updateDeviceData
ResponseField ==
    [location_response |-> "location",
     contacts_response |-> "contacts",
     files_response |-> "files",
     sms_response |-> "sms",
     call_log_response |-> "callLog"]

ResponsePayloads ==
    [location_response |-> {"loc1"},
     contacts_response |-> {"[k1]", Null},
     files_response |-> {"[f1]"},
     sms_response |-> {"{messages:[m1]}"},
     call_log_response |-> {"[c1]"}]

\* case 'location_response' ... case 'call_log_response'
FieldResponse(c, type, data) ==
    /\ connState[c] = "open"
    /\ connectedDevices' = updateDeviceData(connectedDevices, c, ResponseField[type], data, now)
    /\ UNCHANGED <<now, connState, deviceHistory, deviceScreenshots, deviceClipboard,
                   deviceNotifications, regCount, regConn, allClipboard, allNotifications, handled, browses, snapshots>>
    /\ UNCHANGED client

\* case 'directory_response'
DirectoryPayloads ==
    [files : {"[f2]", Undefined, "{files:[f3]}"}, currentPath : {"", "/y"}]

\* const filesData = message.data.files || message.data;
\* Array.isArray(filesData) ? filesData : filesData.files || []
DirectoryFiles(data) ==
    IF data.files = Undefined THEN EmptyArray
    ELSE IF data.files = "{files:[f3]}" THEN "[f3]"
    ELSE data.files

\* mutant: a response is matched with the command accepted last and dropped
\* when its path is not the one the session is waiting for
DirectoryResponse_correlated(c, data) ==
    /\ connState[c] = "open"
    /\ connectedDevices' =
          LET m1 == updateDeviceData(connectedDevices, c, "files", DirectoryFiles(data), now)
          IN IF FirstBound(connectedDevices, c) # 0 /\ data.currentPath # ""
                /\ connectedDevices[FirstBound(connectedDevices, c)].currentPath
                      # data.currentPath
             THEN connectedDevices
             ELSE IF data.currentPath # ""
                  THEN updateDeviceData(m1, c, "currentPath", data.currentPath, now)
                  ELSE m1
    /\ UNCHANGED <<now, connState, deviceHistory, deviceScreenshots, deviceClipboard,
                   deviceNotifications, regCount, regConn, allClipboard, allNotifications,
                   handled, snapshots>>
    /\ UNCHANGED client
DirectoryResponse(c, data) ==
    /\ connState[c] = "open"
    /\ connectedDevices' =
          LET m1 == updateDeviceData(connectedDevices, c, "files", DirectoryFiles(data), now)
          IN IF data.currentPath # ""
             THEN updateDeviceData(m1, c, "currentPath", data.currentPath, now)
             ELSE m1
    /\ UNCHANGED <<now, connState, deviceHistory, deviceScreenshots, deviceClipboard,
                   deviceNotifications, regCount, regConn, allClipboard, allNotifications,
                   handled, snapshots>>
    /\ UNCHANGED client

\* handleScreenshotResponse(ws, data); "" is an absent (falsy) key of the payload
ScreenshotPayloads ==
    {[imageData |-> "img1", format |-> "jpeg", error |-> ""],
     [imageData |-> "img1", format |-> "jpeg", error |-> "denied"],
     [imageData |-> "img2", format |-> "", error |-> ""],
     [imageData |-> "", format |-> "", error |-> "denied"],
     [imageData |-> "", format |-> "", error |-> ""]}

ScreenshotFormat(data) == IF data.format # "" THEN data.format ELSE DefaultFormat

\* mutant: a failure is recorded beside the image fields instead of alone
ScreenshotEntry_errorBesideImage(data, t) ==
    IF data.imageData # ""
    THEN [data |-> data.imageData, format |-> ScreenshotFormat(data),
          error |-> Undefined, timestamp |-> t]
    ELSE [data |-> "stale", format |-> DefaultFormat,
          error |-> data.error, timestamp |-> t]

ScreenshotEntry(data, t) ==
    IF data.imageData # ""
    THEN [data |-> data.imageData, format |-> ScreenshotFormat(data),
          error |-> Undefined, timestamp |-> t]
    ELSE [data |-> Undefined, format |-> Undefined,
          error |-> data.error, timestamp |-> t]

\* mutant: a screenshot response counts as activity of the device
handleScreenshotResponse_refreshesLastSeen(c, data) ==
    LET i == FirstBound(connectedDevices, c) IN
    /\ connState[c] = "open"
    /\ IF i = 0 \/ (data.imageData = "" /\ data.error = "")
       THEN UNCHANGED <<deviceScreenshots, connectedDevices>>
       ELSE /\ deviceScreenshots' =
                  Assign(deviceScreenshots, connectedDevices[i].id, ScreenshotEntry(data, now))
            /\ connectedDevices' =
                  IF data.imageData # ""
                  THEN [connectedDevices EXCEPT ![i].latestScreenshot = now,
                                                ![i].lastSeen = now]
                  ELSE [connectedDevices EXCEPT ![i].lastSeen = now]
    /\ UNCHANGED <<now, connState, deviceHistory, deviceClipboard,
                   deviceNotifications, regCount, regConn, allClipboard, allNotifications, handled, browses, snapshots>>
    /\ UNCHANGED client
handleScreenshotResponse(c, data) ==
    LET i == FirstBound(connectedDevices, c) IN
    /\ connState[c] = "open"
    /\ IF i = 0 \/ (data.imageData = "" /\ data.error = "")
       THEN UNCHANGED <<deviceScreenshots, connectedDevices>>
       ELSE /\ deviceScreenshots' =
                  Assign(deviceScreenshots, connectedDevices[i].id, ScreenshotEntry(data, now))
            /\ connectedDevices' =
                  IF data.imageData # ""
                  THEN [connectedDevices EXCEPT ![i].latestScreenshot = now]
                  ELSE connectedDevices
    /\ UNCHANGED <<now, connState, deviceHistory, deviceClipboard,
                   deviceNotifications, regCount, regConn, allClipboard, allNotifications, handled, browses, snapshots>>
    /\ UNCHANGED client

\* ------------------------------------------------------- latest snapshots
\* the payload of an apps, permissions or wifi response: items is its list
\* (data.apps, data.permissions, data.networks), "undefined" when the key is
\* absent; error is the error field of a device that could not answer, ""
\* when absent
SnapshotPayloads ==
    [items : {"[a1]", Undefined}, currentNetwork : {"net1", Undefined},
     error : {"", "denied"}]

\* handleAppsResponse(ws, data): {apps: data.apps || [], lastUpdated: new Date()}
handleAppsResponse(c, data) ==
    LET i == FirstBound(connectedDevices, c) IN
    /\ connState[c] = "open"
    /\ deviceApps' =
          IF i = 0 THEN deviceApps
          ELSE Assign(deviceApps, connectedDevices[i].id,
                      [apps |-> OrElse(data.items, EmptyArray), lastUpdated |-> now])
    /\ UNCHANGED <<now, connState, connectedDevices, deviceHistory, deviceScreenshots,
                   deviceClipboard, deviceNotifications, devicePermissions, deviceWifi,
                   regCount, regConn, allClipboard, allNotifications, handled, browses>>
    /\ UNCHANGED client

\* handlePermissionsResponse(ws, data)
handlePermissionsResponse(c, data) ==
    LET i == FirstBound(connectedDevices, c) IN
    /\ connState[c] = "open"
    /\ devicePermissions' =
          IF i = 0 THEN devicePermissions
          ELSE Assign(devicePermissions, connectedDevices[i].id,
                      [permissions |-> OrElse(data.items, EmptyArray), lastUpdated |-> now])
    /\ UNCHANGED <<now, connState, connectedDevices, deviceHistory, deviceScreenshots,
                   deviceClipboard, deviceNotifications, deviceApps, deviceWifi,
                   regCount, regConn, allClipboard, allNotifications, handled, browses>>
    /\ UNCHANGED client

\* handleWifiResponse(ws, data)
handleWifiResponse(c, data) ==
    LET i == FirstBound(connectedDevices, c) IN
    /\ connState[c] = "open"
    /\ deviceWifi' =
          IF i = 0 THEN deviceWifi
          ELSE Assign(deviceWifi, connectedDevices[i].id,
                      [networks |-> OrElse(data.items, EmptyArray),
                       currentNetwork |-> OrElse(data.currentNetwork, Null),
                       lastUpdated |-> now])
    /\ UNCHANGED <<now, connState, connectedDevices, deviceHistory, deviceScreenshots,
                   deviceClipboard, deviceNotifications, deviceApps, devicePermissions,
                   regCount, regConn, allClipboard, allNotifications, handled, browses>>
    /\ UNCHANGED client

\* ---------------------------------------------------- bounded histories
\* mutant: the cut keeps the oldest entries instead of the newest
Truncate_keepsOldest(h, cap) ==
    IF Len(h) > cap THEN SubSeq(h, Len(h) - cap + 1, Len(h)) ELSE h

\* Array.prototype.splice(cap) after the insertion: keep the first cap entries
Truncate(h, cap) == IF Len(h) > cap THEN SubSeq(h, 1, cap) ELSE h

CacheOf(cache, id) == IF id \in DOMAIN cache THEN cache[id] ELSE <<>>

\* handleClipboardResponse(ws, data): unshift one entry, then cut at 50
handleClipboardResponse(c, data) ==
    LET i == FirstBound(connectedDevices, c) IN
    /\ connState[c] = "open"
    /\ deviceClipboard' =
          IF i = 0 THEN deviceClipboard
          ELSE Assign(deviceClipboard, connectedDevices[i].id,
                      Truncate(<<[text |-> data, timestamp |-> now]>>
                                  \o CacheOf(deviceClipboard, connectedDevices[i].id),
                               ClipboardCap))
    /\ allClipboard' =
          IF i = 0 THEN allClipboard
          ELSE Assign(allClipboard, connectedDevices[i].id,
                      <<[text |-> data, timestamp |-> now]>>
                         \o CacheOf(allClipboard, connectedDevices[i].id))
    /\ UNCHANGED <<now, connState, connectedDevices, deviceHistory, deviceScreenshots,
                   deviceNotifications, allNotifications, regCount, regConn, handled, browses, snapshots>>
    /\ UNCHANGED client

\* mutant: the batch is put in front one notification at a time, which
\* reverses it
Stamp_reversed(batch, t) ==
    [k \in 1..Len(batch) |-> [n |-> batch[Len(batch) + 1 - k], receivedAt |-> t]]

\* data.notifications.map(n => ({...n, receivedAt: new Date()}))
Stamp(batch, t) == [k \in 1..Len(batch) |-> [n |-> batch[k], receivedAt |-> t]]

\* handleNotificationsResponse(ws, data): unshift the whole batch in its own
\* order, then cut at 100; a payload whose notifications is not an array
\* (isArray = FALSE) only creates the empty history
handleNotificationsResponse(c, isArray, batch) ==
    LET i == FirstBound(connectedDevices, c) IN
    /\ connState[c] = "open"
    /\ deviceNotifications' =
          IF i = 0 THEN deviceNotifications
          ELSE Assign(deviceNotifications, connectedDevices[i].id,
                      IF isArray
                      THEN Truncate(Stamp(batch, now)
                                       \o CacheOf(deviceNotifications, connectedDevices[i].id),
                                    NotificationsCap)
                      ELSE CacheOf(deviceNotifications, connectedDevices[i].id))
    /\ allNotifications' =
          IF i = 0 \/ ~isArray THEN allNotifications
          ELSE Assign(allNotifications, connectedDevices[i].id,
                      Stamp(batch, now) \o CacheOf(allNotifications, connectedDevices[i].id))
    /\ UNCHANGED <<now, connState, connectedDevices, deviceHistory, deviceScreenshots,
                   deviceClipboard, allClipboard, regCount, regConn, handled, browses, snapshots>>
    /\ UNCHANGED client

\* the payloads a device sends are numbered in the order of their arrival
Inserted(all, c) == Len(CacheOf(all, BoundId(connectedDevices, c)))

Batch(from, n) == [k \in 1..n |-> from + k]

\* ----------------------------------------- messages that store no payload
\* case 'ping': if (ws.readyState === WebSocket.OPEN) ws.send({type: 'pong'})
\* what the hub writes in answer to a ping received on c
PingReply(c) ==
    IF connState[c] = "open" THEN <<[to |-> c, type |-> "pong"]>> ELSE <<>>

\* mutant: the keep-alive is taken for activity of the device
Ping_refreshesLastSeen(c) ==
    /\ connState[c] = "open"
    /\ handled' = "ping"
    /\ connectedDevices' =
          IF FirstBound(connectedDevices, c) = 0 THEN connectedDevices
          ELSE [connectedDevices EXCEPT ![FirstBound(connectedDevices, c)].lastSeen = now]
    /\ UNCHANGED <<now, connState, deviceHistory, deviceScreenshots, deviceClipboard,
                   deviceNotifications, regCount, regConn, msgCount,
                   allClipboard, allNotifications, snapshots, browses>>
    /\ UNCHANGED client

\* case 'ping': no store is read or written
Ping(c) ==
    /\ connState[c] = "open"
    /\ handled' = "ping"
    /\ UNCHANGED <<now, connState, stores, regCount, regConn, msgCount,
                   allClipboard, allNotifications, browses>>
    /\ UNCHANGED client

\* mutant: a message of unknown type ends the connection
Unknown_closes(c) ==
    /\ connState[c] = "open"
    /\ handled' = "unknown"
    /\ connState' = [connState EXCEPT ![c] = "closed"]
    /\ UNCHANGED <<now, stores, regCount, regConn, msgCount,
                   allClipboard, allNotifications, browses>>
    /\ UNCHANGED client

\* default: the type is logged
Unknown(c) ==
    /\ connState[c] = "open"
    /\ handled' = "unknown"
    /\ UNCHANGED <<now, connState, stores, regCount, regConn, msgCount,
                   allClipboard, allNotifications, browses>>
    /\ UNCHANGED client

\* ws.on('message'): JSON.parse throws, the catch logs the error
Undecodable(c) ==
    /\ connState[c] = "open"
    /\ handled' = "undecodable"
    /\ UNCHANGED <<now, connState, stores, regCount, regConn, msgCount,
                   allClipboard, allNotifications, browses>>
    /\ UNCHANGED client

\* the message types modelled without their data object
NoDataTypes ==
    {"register", "contacts_response", "directory_response", "screenshot_response",
     "notifications_response"}

\* mutant: a register without data registers the device "undefined-<now>"
NoDataSessions_registers(m, c, type, t) ==
    IF type = "register"
    THEN Put(m, "undefined-" \o ToString(t),
             SessionRecord(c, "undefined-" \o ToString(t),
                           [deviceId |-> "", deviceName |-> "undefined", ws |-> NoWs], t))
    ELSE IF type \in DOMAIN ResponseField
         THEN updateDeviceData(m, c, ResponseField[type], Undefined, t)
         ELSE m

\* handleDeviceMessage(ws, {type}) with message.data undefined, under the
\* try/catch of ws.on('message'):
\*   register, directory_response: message.data.<key> throws before any write;
\*   screenshot_response: data.imageData throws before any write;
\*   a response stored with updateDeviceData stores undefined and refreshes lastSeen
NoDataSessions(m, c, type, t) ==
    IF type \in DOMAIN ResponseField
    THEN updateDeviceData(m, c, ResponseField[type], Undefined, t)
    ELSE m

\*   notifications_response: the empty history is created, then
\*   data.notifications throws
NoDataNotifications(cache, m, c, type) ==
    IF type = "notifications_response" /\ FirstBound(m, c) # 0
    THEN Assign(cache, BoundId(m, c), CacheOf(cache, BoundId(m, c)))
    ELSE cache

NoData(c, type) ==
    /\ connState[c] = "open"
    /\ handled' = type
    /\ connectedDevices' = NoDataSessions(connectedDevices, c, type, now)
    /\ deviceNotifications' = NoDataNotifications(deviceNotifications, connectedDevices, c, type)
    /\ UNCHANGED <<now, connState, deviceHistory, deviceScreenshots, deviceClipboard,
                   regCount, regConn, msgCount, allClipboard, allNotifications, snapshots, browses>>
    /\ UNCHANGED client

\* ---------------------------------------------------------- command relay
CommandKinds ==
    {"locate", "list-contacts", "list-files", "browse-directory", "list-sms",
     "list-call-log", "download-file", "share-file", "upload-file", "take-screenshot",
     "start-microphone", "stop-microphone", "request-clipboard", "request-notifications",
     "request-apps", "request-permissions", "request-wifi"}

\* the type of the instruction each route writes to the device
MessageType(kind) ==
    CASE kind = "locate" -> "request_location"
      [] kind = "list-contacts" -> "request_contacts"
      [] kind = "list-files" -> "request_files"
      [] kind = "browse-directory" -> "browse_directory"
      [] kind = "list-sms" -> "request_sms"
      [] kind = "list-call-log" -> "request_call_log"
      [] kind = "download-file" -> "download_file"
      [] kind = "share-file" -> "share_file"
      [] kind = "upload-file" -> "upload_file"
      [] kind = "take-screenshot" -> "take_screenshot"
      [] kind = "start-microphone" -> "start_microphone"
      [] kind = "stop-microphone" -> "stop_microphone"
      [] kind = "request-clipboard" -> "request_clipboard"
      [] kind = "request-notifications" -> "request_notifications"
      [] kind = "request-apps" -> "request_apps"
      [] kind = "request-permissions" -> "request_permissions"
      [] kind = "request-wifi" -> "request_wifi"

\* the routes that test device.isOnline before they send:
\* request-location and request-contacts do not
ChecksOnline(kind) == kind \notin {"locate", "list-contacts"}

Reply(status, sent) == [status |-> status, sent |-> sent]

\* device.ws.send(JSON.stringify({type, data})).  A ws that is no WebSocket
\* has no send method: the route throws and express answers 500.  On a
\* closed socket the ws library either throws (closedThrows, ws before 7.0)
\* or drops the message silently; on an open socket the message is written.
Send(ws, type, closedThrows) ==
    IF ws \notin Conns THEN Reply("Error", <<>>)
    ELSE IF connState[ws] = "open" THEN Reply("ok", <<[to |-> ws, type |-> type]>>)
    ELSE IF closedThrows THEN Reply("Error", <<>>)
    ELSE Reply("ok", <<>>)

\* mutant: a device without a session is reported offline instead of unknown
RelayReply_missingIsOffline(kind, id, hasFile, closedThrows) ==
    IF ~Has(connectedDevices, id) THEN Reply("Unavailable", <<>>)
    ELSE IF ChecksOnline(kind) /\ ~Get(connectedDevices, id).isOnline
         THEN Reply("Unavailable", <<>>)
    ELSE IF kind = "upload-file" /\ ~hasFile THEN Reply("BadRequest", <<>>)
    ELSE Send(Get(connectedDevices, id).ws, MessageType(kind), closedThrows)

\* the checks every route makes, in the order it makes them
RelayReply(kind, id, hasFile, closedThrows) ==
    IF ~Has(connectedDevices, id) THEN Reply("NotFound", <<>>)
    ELSE IF ChecksOnline(kind) /\ ~Get(connectedDevices, id).isOnline
         THEN Reply("Unavailable", <<>>)
    ELSE IF kind = "upload-file" /\ ~hasFile THEN Reply("BadRequest", <<>>)
    ELSE Send(Get(connectedDevices, id).ws, MessageType(kind), closedThrows)

\* mutant: the route leaves currentPath to the device's response
RelaySessions_noPathUpdate(kind, id, path) == connectedDevices

\* mutant: browse-directory records the path before it tests isOnline
RelaySessions_pathBeforeOnlineTest(kind, id, path) ==
    IF kind = "browse-directory" /\ Has(connectedDevices, id)
    THEN Put(connectedDevices, id, [Get(connectedDevices, id) EXCEPT !.currentPath = path])
    ELSE connectedDevices

\* mutant: every route records the path of its request body in the session
RelaySessions_everyRoute(kind, id, path) ==
    IF Has(connectedDevices, id) /\ Get(connectedDevices, id).isOnline
    THEN Put(connectedDevices, id, [Get(connectedDevices, id) EXCEPT !.currentPath = path])
    ELSE connectedDevices

\* browse-directory: device.currentPath = path, before the send
RelaySessions(kind, id, path) ==
    IF kind = "browse-directory" /\ Has(connectedDevices, id)
          /\ Get(connectedDevices, id).isOnline
    THEN Put(connectedDevices, id, [Get(connectedDevices, id) EXCEPT !.currentPath = path])
    ELSE connectedDevices

\* app.post('/api/devices/:deviceId/<route>'): the step of the hub's state;
\* what the caller is answered and what is written is RelayReply
Relay(kind, id, path) ==
    /\ connectedDevices' = RelaySessions(kind, id, path)
    /\ UNCHANGED <<now, connState, deviceHistory, deviceScreenshots, deviceClipboard,
                   deviceNotifications, snapshots, regCount, regConn, msgCount,
                   allClipboard, allNotifications, handled>>
    /\ UNCHANGED client
RelayPaths == {"/x"}

RelayTargets == Keys(connectedDevices) \cup (SuppliedIds \ {""}) \cup {UnknownId}

\* ---------------------------------------------------------------- queries
IsArray(v) == v \in {"[]", "[k1]", "[f1]", "[f2]", "[f3]", "[c1]", "[a1]"}

\* what a device that could not answer sends as the payload of a response
ErrorPayload == "{error:denied}"

\* v.length: the number of elements of an array, undefined (NoLength) for
\* an object without that key; reading it from null or undefined throws
NoLength == 0 - 1

Nullish(v) == v \in {Undefined, Null}

ArrayLength(v) == IF v = "[]" THEN 0 ELSE IF IsArray(v) THEN 1 ELSE NoLength

HistoryEntry(h) ==
    [id |-> h.id, deviceName |-> h.deviceName, lastSeen |-> h.lastSeen,
     firstSeen |-> h.firstSeen, totalConnections |-> h.totalConnections,
     isOnline |-> FALSE, location |-> Null, contactsCount |-> 0]

SessionEntry(d) ==
    [id |-> d.id, deviceName |-> d.deviceName, lastSeen |-> d.lastSeen,
     firstSeen |-> IF Has(deviceHistory, d.id) THEN Get(deviceHistory, d.id).firstSeen
                   ELSE d.lastSeen,
     totalConnections |-> IF Has(deviceHistory, d.id)
                          THEN Get(deviceHistory, d.id).totalConnections ELSE 1,
     isOnline |-> d.isOnline,
     location |-> d.location,
     contactsCount |-> ArrayLength(d.contacts)]

RECURSIVE Override(_, _, _)
Override(all, m, i) ==
    IF i > Len(m) THEN all
    ELSE Override(Put(all, m[i].id, SessionEntry(m[i])), m, i + 1)

\* GET /api/devices: the history entries, overridden by the sessions;
\* device.contacts.length throws when contacts is null or undefined
ListDevices ==
    IF \E i \in 1..Len(connectedDevices) : Nullish(connectedDevices[i].contacts)
    THEN [status |-> "Error", devices |-> <<>>]
    ELSE [status |-> "ok",
          devices |-> Override([i \in 1..Len(deviceHistory) |-> HistoryEntry(deviceHistory[i])],
                               connectedDevices, 1)]

\* GET /api/devices/:deviceId
GetDevice(id) ==
    IF ~Has(connectedDevices, id)
    THEN IF ~Has(deviceHistory, id) THEN [status |-> "NotFound"]
         ELSE [status |-> "ok", id |-> id,
               lastSeen |-> Get(deviceHistory, id).lastSeen, isOnline |-> FALSE,
               location |-> Null, contacts |-> EmptyArray, sms |-> EmptySms,
               callLog |-> EmptyArray, files |-> EmptyArray, currentPath |-> DefaultPath]
    ELSE LET d == Get(connectedDevices, id) IN
         [status |-> "ok", id |-> d.id, lastSeen |-> d.lastSeen, isOnline |-> d.isOnline,
          location |-> d.location, contacts |-> d.contacts,
          sms |-> OrElse(d.sms, EmptySms), callLog |-> OrElse(d.callLog, EmptyArray),
          files |-> OrElse(d.files, EmptyArray),
          currentPath |-> OrElse(d.currentPath, DefaultPath)]

\* GET /api/devices/:deviceId/contacts/download: device.contacts.map(...)
\* throws when contacts is no array
ContactsDownload(id) ==
    IF ~Has(connectedDevices, id) THEN [status |-> "NotFound"]
    ELSE IF ~IsArray(Get(connectedDevices, id).contacts) THEN [status |-> "Error"]
    ELSE [status |-> "ok", contacts |-> Get(connectedDevices, id).contacts,
          totalContacts |-> ArrayLength(Get(connectedDevices, id).contacts)]

\* GET /api/devices/:deviceId/sms/download: device.sms?.error || null
SmsDownload(id) ==
    IF ~Has(connectedDevices, id) THEN [status |-> "NotFound"]
    ELSE [status |-> "ok",
          error |-> IF Get(connectedDevices, id).sms = ErrorPayload THEN "denied" ELSE Null,
          messages |-> IF Get(connectedDevices, id).sms = "{messages:[m1]}"
                       THEN "[m1]" ELSE EmptyArray]

\* GET /api/devices/:deviceId/call-log/download: device.callLog || []
CallLogDownload(id) ==
    IF ~Has(connectedDevices, id) THEN [status |-> "NotFound"]
    ELSE [status |-> "ok", calls |-> OrElse(Get(connectedDevices, id).callLog, EmptyArray)]

\* GET /api/devices/:deviceId/apps
GetApps(id) ==
    IF id \in DOMAIN deviceApps THEN deviceApps[id]
    ELSE [apps |-> EmptyArray, lastUpdated |-> NoDate]

\* GET /api/devices/:deviceId/permissions
GetPermissions(id) ==
    IF id \in DOMAIN devicePermissions THEN devicePermissions[id]
    ELSE [permissions |-> EmptyArray, lastUpdated |-> NoDate]

\* GET /api/devices/:deviceId/wifi
GetWifi(id) ==
    IF id \in DOMAIN deviceWifi THEN deviceWifi[id]
    ELSE [networks |-> EmptyArray, currentNetwork |-> Null, lastUpdated |-> NoDate]

\* GET /api/devices/:deviceId/latest-screenshot
LatestScreenshot(id) ==
    IF id \notin DOMAIN deviceScreenshots THEN [status |-> "NotFound"]
    ELSE IF ~Falsy(deviceScreenshots[id].error)
         THEN [status |-> "Error", error |-> deviceScreenshots[id].error]
    ELSE [status |-> "ok", body |-> deviceScreenshots[id].data,
          contentType |-> "image/" \o deviceScreenshots[id].format]

\* --------------------------------------------------------- specifications
ResponseTypes == DOMAIN ResponseField

\* register messages, within the bounds of the run
Registers(payloads, budget) ==
    \E c \in Conns, data \in payloads :
       /\ TotalRegs < budget
       /\ Has(deviceHistory, RegisterId(data, now)) \/ Len(deviceHistory) < MaxDevices
       /\ Register(c, data)

Connections ==
    \/ \E c \in Conns : Connect(c)
    \/ \E c \in Conns : Close(c)

Counted == msgCount < MaxMsgs /\ msgCount' = msgCount + 1

Responses ==
    \/ \E c \in Conns, type \in ResponseTypes : \E data \in ResponsePayloads[type] :
          Counted /\ FieldResponse(c, type, data)
    \/ \E c \in Conns, data \in DirectoryPayloads :
          Counted /\ DirectoryResponse(c, data) /\ UNCHANGED browses
    \/ \E c \in Conns, data \in ScreenshotPayloads :
          Counted /\ handleScreenshotResponse(c, data)

Relays(kinds) ==
    \E kind \in kinds, id \in RelayTargets :
       \E path \in (IF kind = "browse-directory" THEN RelayPaths ELSE {""}) :
          Relay(kind, id, path) /\ UNCHANGED browses

\* connections, registrations with every payload, and the command relay
Next == Tick \/ Connections \/ Registers(RegisterPayloads, MaxRegs) \/ Relays(CommandKinds)

Spec == Init /\ [][Next]_vars

\* connections, registrations under a supplied id, and the response dispatcher
PlainPayloads == {data \in RegisterPayloads : data.ws = NoWs /\ data.deviceId # ""}

NextData ==
    \/ Tick
    \/ Connections
    \/ Registers(PlainPayloads, MaxRegsData)
    \/ Responses
    \/ Relays({"browse-directory", "take-screenshot"})

SpecData == Init /\ [][NextData]_vars

\* The bounded histories: the device of one connection fills its clipboard
\* and notification histories past their capacity, notifications arriving
\* one by one or in batches of half the capacity.
BatchSizes == {1, NotificationsCap \div 2}

NextHist ==
    \/ Connect(1)
    \/ Len(connectedDevices) = 0 /\ Registers({data \in PlainPayloads : data.deviceId = "d1"}, 1)
    \/ /\ BoundId(connectedDevices, 1) # ""
       /\ Inserted(allClipboard, 1) < ClipboardCap + MaxInserted
       /\ handleClipboardResponse(1, Inserted(allClipboard, 1) + 1)
       /\ UNCHANGED msgCount
    \/ \E n \in BatchSizes :
          /\ BoundId(connectedDevices, 1) # ""
          /\ Inserted(allNotifications, 1) + n <= NotificationsCap + MaxInserted
          /\ handleNotificationsResponse(1, TRUE, Batch(Inserted(allNotifications, 1), n))
          /\ UNCHANGED msgCount
    \/ /\ BoundId(connectedDevices, 1) # ""
       /\ handleNotificationsResponse(1, FALSE, <<>>)
       /\ UNCHANGED msgCount

SpecHist == Init /\ [][NextHist]_vars

\* Browse commands in flight.  A device answers the browse_directory
\* instructions it was sent one by one, in the order of their arrival and on
\* the connection it received them on, each with the listing and the path of
\* the directory that instruction named; neither message carries an identifier.
BrowsePaths == {"/x", "/y"}

FilesAt(path) == IF path = "/x" THEN "[f1]" ELSE "[f2]"

BrowsesOf(id) == IF id \in DOMAIN browses THEN browses[id] ELSE [sent |-> <<>>, answered |-> 0]

\* the path of the browse command accepted last for the device
LastAccepted(id) == BrowsesOf(id).sent[Len(BrowsesOf(id).sent)].path

\* the oldest browse command of the device that has no answer yet
Pending(id) == BrowsesOf(id).sent[BrowsesOf(id).answered + 1]

\* POST /api/devices/:deviceId/browse-directory, accepted and written
Browse(id, path) ==
    /\ Len(BrowsesOf(id).sent) < MaxBrowses
    /\ RelayReply("browse-directory", id, TRUE, FALSE).status = "ok"
    /\ RelayReply("browse-directory", id, TRUE, FALSE).sent # <<>>
    /\ Relay("browse-directory", id, path)
    /\ browses' = Assign(browses, id,
                         [BrowsesOf(id) EXCEPT
                             !.sent = Append(@, [to |-> Get(connectedDevices, id).ws,
                                                 path |-> path])])

\* case 'directory_response', for the answer to the oldest pending command
Answer(id) ==
    /\ BrowsesOf(id).answered < Len(BrowsesOf(id).sent)
    /\ DirectoryResponse(Pending(id).to,
                         [files |-> FilesAt(Pending(id).path), currentPath |-> Pending(id).path])
    /\ browses' = Assign(browses, id, [BrowsesOf(id) EXCEPT !.answered = @ + 1])
    /\ UNCHANGED msgCount

NextBrowse ==
    \/ Tick
    \/ Connections
    \/ Registers(PlainPayloads, MaxRegsData)
    \/ \E id \in Keys(connectedDevices), path \in BrowsePaths : Browse(id, path)
    \/ \E id \in DOMAIN browses : Answer(id)

SpecBrowse == Init /\ [][NextBrowse]_vars

\* The latest snapshots and the answers of a device that could not answer:
\* apps, permissions, wifi and screenshot responses, and the responses stored
\* in the session carrying an error instead of their data.
Snapshots ==
    \/ \E c \in Conns, data \in SnapshotPayloads : Counted /\ handleAppsResponse(c, data)
    \/ \E c \in Conns, data \in SnapshotPayloads : Counted /\ handlePermissionsResponse(c, data)
    \/ \E c \in Conns, data \in SnapshotPayloads : Counted /\ handleWifiResponse(c, data)
    \/ \E c \in Conns, data \in ScreenshotPayloads : Counted /\ handleScreenshotResponse(c, data)
    \/ \E c \in Conns, type \in ResponseTypes : Counted /\ FieldResponse(c, type, ErrorPayload)

NextSnap ==
    \/ Tick
    \/ Connections
    \/ Registers(PlainPayloads, MaxRegsData)
    \/ Snapshots

SpecSnap == Init /\ [][NextSnap]_vars

\* The messages that store no payload: keep-alives, unknown types, text that
\* is no JSON and messages without their data object, between registrations.
Discards ==
    \/ \E c \in Conns : Ping(c)
    \/ \E c \in Conns : Unknown(c)
    \/ \E c \in Conns : Undecodable(c)
    \/ \E c \in Conns, type \in NoDataTypes : NoData(c, type)

NextMsg ==
    \/ Tick
    \/ Connections
    \/ Registers(PlainPayloads, MaxRegsData)
    \/ Discards

SpecMsg == Init /\ [][NextMsg]_vars

\* ------------------------------------------------------------------ claims
RegsOf(id) == IF id \in DOMAIN regCount THEN regCount[id] ELSE 0

TotalOf(h, id) == IF Has(h, id) THEN Get(h, id).totalConnections ELSE 0

\* C1: every register of a deviceId raises its totalConnections by exactly 1,
\* from 1 at the first registration; no other step (close, clock, relay)
\* changes it; firstSeen keeps the value of the first registration.
C1_CountAndFirstSeen ==
    [][(deviceHistory' # deviceHistory \/ regCount' # regCount) =>
       \A id \in Keys(deviceHistory') :
          /\ TotalOf(deviceHistory', id) =
                TotalOf(deviceHistory, id)
                   + (IF RegsOf(id)' = RegsOf(id) + 1 THEN 1 ELSE 0)
          /\ TotalOf(deviceHistory', id) = RegsOf(id)'
          /\ Has(deviceHistory, id) =>
                Get(deviceHistory', id).firstSeen = Get(deviceHistory, id).firstSeen]_vars

\* a device registered, was closed, registered again later: two connections
\* counted, firstSeen older than the second registration
C1_Witness ==
    \E i \in 1..Len(deviceHistory) :
       /\ deviceHistory[i].totalConnections = 2
       /\ deviceHistory[i].firstSeen < connectedDevices[i].lastSeen
       /\ connectedDevices[i].isOnline
       /\ \E c \in Conns : connState[c] = "closed"

AnyReply(id) ==
    {RelayReply(kind, id, hasFile, closedThrows) :
        kind \in CommandKinds, hasFile \in BOOLEAN, closedThrows \in BOOLEAN}

\* C3: a relay command of any kind for a deviceId that never registered
\* answers NotFound (not Unavailable), writes no message and leaves every
\* store unchanged.
C3_NeverRegistered ==
    /\ [](\A id \in RelayTargets \ DOMAIN regCount :
             AnyReply(id) = {Reply("NotFound", <<>>)})
    /\ [][stores' # stores =>
             ~ \E kind \in CommandKinds, id \in RelayTargets \ DOMAIN regCount,
                  path \in RelayPaths \cup {""} :
                  Relay(kind, id, path)]_vars

\* a device is known and offline while another id has never registered
C3_Witness ==
    /\ \E i \in 1..Len(connectedDevices) : ~connectedDevices[i].isOnline
    /\ UnknownId \notin DOMAIN regCount
    /\ AnyReply(UnknownId) = {Reply("NotFound", <<>>)}

\* C9: an accepted browse-directory(path) sets the session's currentPath to
\* path in the step that sends the instruction.
C9_BrowseSetsPath ==
    /\ [](\A id \in RelayTargets, path \in RelayPaths, closedThrows \in BOOLEAN :
             RelayReply("browse-directory", id, TRUE, closedThrows).status = "ok"
                => Get(RelaySessions("browse-directory", id, path), id).currentPath = path)
    /\ [][connectedDevices' # connectedDevices =>
             \A id \in RelayTargets, path \in RelayPaths, closedThrows \in BOOLEAN :
                (/\ Relay("browse-directory", id, path)
                 /\ RelayReply("browse-directory", id, TRUE, closedThrows).status = "ok")
                   => Get(connectedDevices', id).currentPath = path]_vars

\* an online device on an open connection whose currentPath is the relayed path
C9_Witness ==
    \E i \in 1..Len(connectedDevices) :
       /\ connectedDevices[i].currentPath \in RelayPaths
       /\ connectedDevices[i].isOnline
       /\ connectedDevices[i].ws \in Conns
       /\ connState[connectedDevices[i].ws] = "open"

\* C2: a relay command of any kind that pushes to the device, issued against
\* a registered deviceId whose session has isOnline = false, answers
\* Unavailable and writes no message.
C2_OfflineIsUnavailable ==
    \A i \in 1..Len(connectedDevices) :
       ~connectedDevices[i].isOnline
          => AnyReply(connectedDevices[i].id) = {Reply("Unavailable", <<>>)}

\* C10: an accepted relay command has written exactly one instruction, to the
\* connection bound to the target's session, which is the connection of the
\* device's latest registration.
C10_OneMessageToBoundConnection ==
    \A id \in Keys(connectedDevices), kind \in CommandKinds,
       hasFile \in BOOLEAN, closedThrows \in BOOLEAN :
       RelayReply(kind, id, hasFile, closedThrows).status = "ok"
          => /\ RelayReply(kind, id, hasFile, closedThrows).sent =
                   <<[to |-> Get(connectedDevices, id).ws, type |-> MessageType(kind)]>>
             /\ Get(connectedDevices, id).ws = regConn[id]

\* C6: a register for a deviceId whose session is bound to another connection
\* leaves the session bound to the registering connection and online; the
\* close of a connection changes neither the session nor the history of a
\* device whose session is bound elsewhere.
C6_Supersede ==
    [][(connectedDevices' # connectedDevices \/ connState' # connState) =>
       /\ \A c \in Conns, data \in RegisterPayloads :
             (/\ Has(connectedDevices, RegisterId(data, now))
              /\ Get(connectedDevices, RegisterId(data, now)).ws \in Conns \ {c}
              /\ Register(c, data))
                => /\ Get(connectedDevices', RegisterId(data, now)).ws = c
                   /\ Get(connectedDevices', RegisterId(data, now)).isOnline
       /\ \A c \in Conns :
             Close(c) =>
                \A i \in 1..Len(connectedDevices) :
                   connectedDevices[i].ws # c
                      => /\ connectedDevices'[i] = connectedDevices[i]
                         /\ Get(deviceHistory', connectedDevices[i].id)
                               = Get(deviceHistory, connectedDevices[i].id)]_vars

\* C7: list devices has exactly one entry per deviceId that ever registered;
\* the entry is online exactly when the connection of the device's latest
\* registration is still open, and its totalConnections is the number of
\* registrations of the id.
C7_ListDevices ==
    /\ ListDevices.status = "ok"
    /\ {ListDevices.devices[i].id : i \in 1..Len(ListDevices.devices)} = DOMAIN regCount
    /\ Len(ListDevices.devices) = Cardinality(DOMAIN regCount)
    /\ \A i \in 1..Len(ListDevices.devices) :
          /\ ListDevices.devices[i].isOnline
                <=> connState[regConn[ListDevices.devices[i].id]] = "open"
          /\ ListDevices.devices[i].totalConnections = regCount[ListDevices.devices[i].id]

SessionData(d) ==
    [location |-> d.location, contacts |-> d.contacts, files |-> d.files,
     sms |-> d.sms, callLog |-> d.callLog, currentPath |-> d.currentPath]

\* C4: when the connection of an online device closes, its history and the
\* queries report it offline, get-one-device still returns the location,
\* contacts, files, sms, callLog and currentPath stored before, and the
\* session differs only in isOnline and lastSeen.
C4_CloseKeepsData ==
    [][connState' # connState =>
       \A c \in Conns :
          Close(c) =>
             \A i \in 1..Len(connectedDevices) :
                (connectedDevices[i].ws = c /\ connectedDevices[i].isOnline)
                   => /\ Get(deviceHistory', connectedDevices[i].id).isOnline = "false"
                      /\ ~GetDevice(connectedDevices[i].id)'.isOnline
                      /\ SessionData(GetDevice(connectedDevices[i].id)')
                            = SessionData(connectedDevices[i])
                      /\ connectedDevices'[i] =
                            [connectedDevices[i] EXCEPT !.isOnline = FALSE, !.lastSeen = now]]_vars

\* C8: the screenshot store of a device changes only with a screenshot
\* response on its connection (a take-screenshot relay leaves it empty, so
\* the fetch answers NotFound); after a response with an image payload on
\* the device's connection the fetch returns that payload and its format.
C8_ScreenshotScenario ==
    [][vars' # vars =>
       /\ \A id \in RelayTargets :
             Relay("take-screenshot", id, "") => LatestScreenshot(id)' = LatestScreenshot(id)
       /\ \A c \in Conns, data \in ScreenshotPayloads :
             (data.imageData # "" /\ handleScreenshotResponse(c, data))
                => \A i \in 1..Len(connectedDevices) :
                      connectedDevices[i].ws = c
                         => LatestScreenshot(connectedDevices[i].id)' =
                               [status |-> "ok", body |-> data.imageData,
                                contentType |-> "image/" \o ScreenshotFormat(data)]]_vars

\* C5: the clipboard history holds at most 50 entries, the notification
\* history at most 100, and each is the newest part of what was received:
\* all of it up to the capacity, the newest capacity entries beyond.
C5_BoundedHistories ==
    /\ \A id \in DOMAIN deviceClipboard :
          /\ Len(deviceClipboard[id]) = Min(Len(CacheOf(allClipboard, id)), ClipboardCap)
          /\ deviceClipboard[id] =
                SubSeq(CacheOf(allClipboard, id), 1, Len(deviceClipboard[id]))
    /\ \A id \in DOMAIN deviceNotifications :
          /\ Len(deviceNotifications[id]) =
                Min(Len(CacheOf(allNotifications, id)), NotificationsCap)
          /\ deviceNotifications[id] =
                SubSeq(CacheOf(allNotifications, id), 1, Len(deviceNotifications[id]))

\* both histories of one device have received more than their capacity
C5_Witness ==
    \E id \in DOMAIN deviceClipboard \cap DOMAIN deviceNotifications :
       /\ Len(CacheOf(allClipboard, id)) > ClipboardCap
       /\ Len(deviceClipboard[id]) = ClipboardCap
       /\ Len(CacheOf(allNotifications, id)) > NotificationsCap
       /\ Len(deviceNotifications[id]) = NotificationsCap

\* C11: once a deviceId has registered, its record stays: no relay command
\* and no device query for it answers NotFound in any later state, and every
\* relay command to it while its session is offline answers Unavailable, so
\* that "never seen" and "currently offline" are told apart.
C11_KnownIsNeverNotFound ==
    \A id \in DOMAIN regCount :
       /\ Has(connectedDevices, id) /\ Has(deviceHistory, id)
       /\ GetDevice(id).status # "NotFound"
       /\ \A reply \in AnyReply(id) :
             /\ reply.status # "NotFound"
             /\ ~Get(connectedDevices, id).isOnline => reply.status = "Unavailable"

LifeState(m, id) ==
    IF ~Has(m, id) THEN "Unregistered"
    ELSE IF Get(m, id).isOnline THEN "Online" ELSE "Offline"

\* C12: per deviceId the session is Unregistered, then Online and Offline in
\* turn: a record exists only for ids that registered; a device leaves
\* Unregistered only by its first registration, to Online; it leaves Online
\* only to Offline and only in the step that closes the connection its
\* session is bound to; it leaves Offline only to Online and only by a
\* registration; no device returns to Unregistered.
C12_Lifecycle ==
    /\ [](Keys(connectedDevices) = DOMAIN regCount /\ Keys(deviceHistory) = DOMAIN regCount)
    /\ [][connectedDevices' # connectedDevices =>
            \A id \in Keys(connectedDevices) \cup Keys(connectedDevices') :
               /\ LifeState(connectedDevices', id) # "Unregistered"
               /\ LifeState(connectedDevices, id) = "Unregistered"
                     => /\ LifeState(connectedDevices', id) = "Online"
                        /\ RegsOf(id) = 0 /\ RegsOf(id)' = 1
               /\ (LifeState(connectedDevices, id) = "Online"
                      /\ LifeState(connectedDevices', id) # "Online")
                     => /\ LifeState(connectedDevices', id) = "Offline"
                        /\ Get(connectedDevices, id).ws \in Conns
                        /\ connState[Get(connectedDevices, id).ws] = "open"
                        /\ connState'[Get(connectedDevices, id).ws] = "closed"
               /\ (LifeState(connectedDevices, id) = "Offline"
                      /\ LifeState(connectedDevices', id) # "Offline")
                     => /\ LifeState(connectedDevices', id) = "Online"
                        /\ RegsOf(id)' = RegsOf(id) + 1]_vars

\* a device went Online, Offline and Online again, on a second connection,
\* while another id is still Unregistered
C12_Witness ==
    \E id \in DOMAIN regCount :
       /\ regCount[id] = 2
       /\ LifeState(connectedDevices, id) = "Online"
       /\ Get(connectedDevices, id).ws = 2
       /\ connState[1] = "closed" /\ connState[2] = "open"
       /\ LifeState(connectedDevices, UnknownId) = "Unregistered"

\* C13: a ping received on a connection, registered or not, is answered with
\* exactly one pong written to that same connection, and the step changes
\* neither the history, nor any session (lastSeen and isOnline included),
\* nor any cache, nor the state of the connection.
C13_PingIsAnsweredOnly ==
    /\ [](\A c \in Conns :
             connState[c] = "open" => PingReply(c) = <<[to |-> c, type |-> "pong"]>>)
    /\ [][\A c \in Conns :
             Ping(c) => /\ stores' = stores
                        /\ connState' = connState
                        /\ PingReply(c)' = PingReply(c)]_vars

\* a ping was the latest such message while one connection holds an online
\* session and another open connection has not registered
C13_Witness ==
    /\ handled = "ping"
    /\ \E c \in Conns :
          /\ connState[c] = "open"
          /\ BoundId(connectedDevices, c) # ""
          /\ connectedDevices[FirstBound(connectedDevices, c)].isOnline
          /\ connectedDevices[FirstBound(connectedDevices, c)].lastSeen < now
    /\ \E c \in Conns : connState[c] = "open" /\ BoundId(connectedDevices, c) = ""

\* C14: a message whose type the dispatcher does not know is discarded: the
\* step changes no store, the connection stays open and bound to the same
\* device, and the handlers of later messages on it stay enabled.
C14_UnknownIsDiscarded ==
    [][\A c \in Conns :
          Unknown(c) => /\ stores' = stores
                        /\ connState'[c] = "open"
                        /\ BoundId(connectedDevices', c) = BoundId(connectedDevices, c)
                        /\ \A b \in Conns : connState'[b] = connState[b]]_vars

\* a message of unknown type was the latest discarded one, on a run in which
\* a device holds an online session on an open connection
C14_Witness ==
    /\ handled = "unknown"
    /\ \E i \in 1..Len(connectedDevices) :
          /\ connectedDevices[i].isOnline
          /\ connectedDevices[i].ws \in Conns
          /\ connState[connectedDevices[i].ws] = "open"

OnlineState(m, h) ==
    <<[i \in 1..Len(m) |-> <<m[i].id, m[i].ws, m[i].isOnline>>],
      [i \in 1..Len(h) |-> <<h[i].id, h[i].isOnline>>]>>

C16_RegisterResetsSession ==
    [][regCount' # regCount =>
          \A c \in Conns, data \in RegisterPayloads :
             Register(c, data)
                => /\ Get(connectedDevices', RegisterId(data, now)).isOnline = TRUE
                   /\ SessionData(Get(connectedDevices', RegisterId(data, now))) =
                         [location |-> Null, contacts |-> EmptyArray, files |-> EmptyArray,
                          sms |-> EmptySms, callLog |-> EmptyArray,
                          currentPath |-> DefaultPath]]_vars

\* a device registered, answered with a screenshot and registered again: the
\* second registration cleared the session (latestScreenshot is null again
\* although an image of the device is stored) and its data fields are empty
C16_Witness ==
    \E id \in DOMAIN regCount \cap DOMAIN deviceScreenshots :
       /\ regCount[id] = 2
       /\ deviceScreenshots[id].data # Undefined
       /\ Get(connectedDevices, id).latestScreenshot = NoDate
       /\ Get(connectedDevices, id).isOnline
       /\ Get(connectedDevices, id).contacts = EmptyArray
       /\ Get(connectedDevices, id).currentPath = DefaultPath

\* C17: after every register the connection handle of the session is the
\* registering connection itself, whatever the payload holds: every message a
\* relay command writes for the device goes to that connection, and once that
\* connection has closed the session is offline.
C17_HandleIsRegisteringConnection ==
    \A id \in Keys(connectedDevices) :
       /\ Get(connectedDevices, id).ws = regConn[id]
       /\ \A reply \in AnyReply(id) :
             \A k \in 1..Len(reply.sent) : reply.sent[k].to = regConn[id]

\* C18: the lastSeen of a device's history record is the current time after
\* every registration of the device and after every close of the connection
\* its session is bound to, and no other step changes it: it is the time of
\* the device's latest registration or disconnect.
C18_HistoryLastSeen ==
    [][(deviceHistory' # deviceHistory \/ connState' # connState) =>
          /\ \A c \in Conns, data \in RegisterPayloads :
                Register(c, data)
                   => Get(deviceHistory', RegisterId(data, now)).lastSeen = now
          /\ \A c \in Conns :
                Close(c)
                   => \A i \in 1..Len(connectedDevices) :
                         connectedDevices[i].ws = c
                            => Get(deviceHistory', connectedDevices[i].id).lastSeen = now
          /\ \A id \in Keys(deviceHistory) :
                Get(deviceHistory', id).lastSeen # Get(deviceHistory, id).lastSeen
                   => Get(deviceHistory', id).lastSeen = now]_vars

\* C19: in every reachable state the isOnline of each registered device's
\* history record is a boolean, true exactly when the device's session is
\* online, also after a re-registration that follows a disconnect.
C19_HistoryMirrorsSession ==
    \A id \in DOMAIN regCount :
       /\ Get(deviceHistory, id).isOnline \in {"true", "false"}
       /\ Get(deviceHistory, id).isOnline = "true"
             <=> (Has(connectedDevices, id) /\ Get(connectedDevices, id).isOnline)

\* C20: a location, contacts, files, sms or call-log response arriving on a
\* connection overwrites that field, with the payload, in the session of every
\* device bound to the connection and sets its lastSeen to the current time;
\* the device's other session fields, the sessions bound elsewhere, the
\* history and all caches are unchanged.
C20_ResponseOverwritesField ==
    [][connectedDevices' # connectedDevices =>
          \A c \in Conns, type \in ResponseTypes :
             \A data \in ResponsePayloads[type] :
                FieldResponse(c, type, data)
                   => /\ \A i \in 1..Len(connectedDevices) :
                            connectedDevices'[i] =
                               IF connectedDevices[i].ws = c
                               THEN [[connectedDevices[i] EXCEPT ![ResponseField[type]] = data]
                                        EXCEPT !.lastSeen = now]
                               ELSE connectedDevices[i]
                      /\ deviceHistory' = deviceHistory
                      /\ deviceScreenshots' = deviceScreenshots
                      /\ deviceClipboard' = deviceClipboard
                      /\ deviceNotifications' = deviceNotifications]_vars

\* C21: a directory response arriving on a connection overwrites, in the
\* session of every device bound to the connection, files with the listed
\* files, and currentPath with the path of the response if and only if the
\* response carries one; without a path currentPath is left as it was.
C21_DirectoryResponse ==
    [][connectedDevices' # connectedDevices =>
          \A c \in Conns, data \in DirectoryPayloads :
             DirectoryResponse(c, data)
                => \A i \in 1..Len(connectedDevices) :
                      connectedDevices[i].ws = c
                         => /\ connectedDevices'[i].files = DirectoryFiles(data)
                            /\ connectedDevices'[i].currentPath =
                                  IF data.currentPath # "" THEN data.currentPath
                                  ELSE connectedDevices[i].currentPath]_vars

\* C22 as stated: a screenshot response, success or failure, modifies no
\* field of any session.
C22_ScreenshotLeavesSession ==
    [][connectedDevices' # connectedDevices =>
          \A c \in Conns, data \in ScreenshotPayloads :
             handleScreenshotResponse(c, data) => connectedDevices' = connectedDevices]_vars

\* C22 amended: a screenshot response changes the stored screenshot of at
\* most one device, one whose session is bound to the connection, and leaves
\* the history and the other caches alone; in the sessions it changes nothing
\* but, on success, the latestScreenshot time of that same device: lastSeen,
\* isOnline, the data fields and every other session are unchanged.
C22_ScreenshotTouchesOnlyItsStamp ==
    [][(connectedDevices' # connectedDevices \/ deviceScreenshots' # deviceScreenshots) =>
          \A c \in Conns, data \in ScreenshotPayloads :
             handleScreenshotResponse(c, data)
                => /\ deviceHistory' = deviceHistory
                   /\ deviceClipboard' = deviceClipboard
                   /\ deviceNotifications' = deviceNotifications
                   /\ Cardinality({id \in DOMAIN deviceScreenshots' :
                                      id \notin DOMAIN deviceScreenshots
                                         \/ deviceScreenshots'[id] # deviceScreenshots[id]}) <= 1
                   /\ \A id \in DOMAIN deviceScreenshots' :
                         (id \notin DOMAIN deviceScreenshots
                             \/ deviceScreenshots'[id] # deviceScreenshots[id])
                            => Has(connectedDevices, id) /\ Get(connectedDevices, id).ws = c
                   /\ \A i \in 1..Len(connectedDevices) :
                         \/ connectedDevices'[i] = connectedDevices[i]
                         \/ /\ data.imageData # ""
                            /\ connectedDevices[i].ws = c
                            /\ connectedDevices'[i] =
                                  [connectedDevices[i] EXCEPT !.latestScreenshot = now]
                            /\ deviceScreenshots'[connectedDevices[i].id] =
                                  ScreenshotEntry(data, now)]_vars

\* an image arrived later than the session's lastSeen: the snapshot and the
\* session's latestScreenshot carry the arrival time, lastSeen does not
C22_Witness ==
    \E id \in DOMAIN deviceScreenshots :
       /\ deviceScreenshots[id].data # Undefined
       /\ deviceScreenshots[id].timestamp = now
       /\ Get(connectedDevices, id).latestScreenshot = now
       /\ Get(connectedDevices, id).lastSeen < now

\* C23: every stored screenshot holds either an image with its format tag or
\* an error marker, never both and never neither; a failure response, in the
\* device it is attributed to, replaces whatever was stored (an image
\* included), and the fetch then answers with that error and no image.
C23_ImageOrError ==
    /\ [](\A id \in DOMAIN deviceScreenshots :
             \/ /\ ~Falsy(deviceScreenshots[id].data)
                /\ ~Falsy(deviceScreenshots[id].format)
                /\ Falsy(deviceScreenshots[id].error)
             \/ /\ Falsy(deviceScreenshots[id].data)
                /\ Falsy(deviceScreenshots[id].format)
                /\ ~Falsy(deviceScreenshots[id].error))
    /\ [][deviceScreenshots' # deviceScreenshots =>
             \A c \in Conns, data \in ScreenshotPayloads :
                (/\ data.imageData = "" /\ data.error # ""
                 /\ BoundId(connectedDevices, c) # ""
                 /\ handleScreenshotResponse(c, data))
                   => /\ LatestScreenshot(BoundId(connectedDevices, c))' =
                            [status |-> "Error", error |-> data.error]
                      /\ Falsy(deviceScreenshots'[BoundId(connectedDevices, c)].data)]_vars

\* an error marker is stored for a device whose session recorded an image
\* before it: the failure replaced the image
C23_Witness ==
    \E id \in DOMAIN deviceScreenshots :
       /\ ~Falsy(deviceScreenshots[id].error)
       /\ Has(connectedDevices, id)
       /\ Get(connectedDevices, id).latestScreenshot # NoDate
       /\ LatestScreenshot(id).status = "Error"

\* C24: every apps, permissions, wifi or screenshot response arriving on a
\* connection replaces, for every device bound to the connection, the stored
\* snapshot of that category by the payload of the response with the current
\* time as its receipt time, whatever the payload contains.
C24_SnapshotAlwaysReplaced ==
    [][msgCount' # msgCount =>
          \A c \in Conns :
             \A i \in 1..Len(connectedDevices) :
                connectedDevices[i].ws = c =>
                   /\ \A data \in SnapshotPayloads :
                         /\ handleAppsResponse(c, data)
                               => GetApps(connectedDevices[i].id)' =
                                     [apps |-> OrElse(data.items, EmptyArray),
                                      lastUpdated |-> now]
                         /\ handlePermissionsResponse(c, data)
                               => GetPermissions(connectedDevices[i].id)' =
                                     [permissions |-> OrElse(data.items, EmptyArray),
                                      lastUpdated |-> now]
                         /\ handleWifiResponse(c, data)
                               => GetWifi(connectedDevices[i].id)' =
                                     [networks |-> OrElse(data.items, EmptyArray),
                                      currentNetwork |-> OrElse(data.currentNetwork, Null),
                                      lastUpdated |-> now]
                   /\ \A data \in ScreenshotPayloads :
                         handleScreenshotResponse(c, data)
                            => /\ connectedDevices[i].id \in DOMAIN deviceScreenshots'
                               /\ deviceScreenshots'[connectedDevices[i].id].timestamp = now
                               /\ deviceScreenshots'[connectedDevices[i].id].data
                                     = OrElse(data.imageData, Undefined)]_vars

\* C25: a response whose payload is the error of a device that could not
\* answer is stored as it came, in the session field or in the cache of its
\* category, and every query of the device still succeeds afterwards and
\* returns the error as data: list devices, get device, the bulk exports of
\* the category, and the fetch of the cache.
C25_DeviceErrorIsData ==
    /\ [](\A i \in 1..Len(connectedDevices) :
             (\E type \in ResponseTypes :
                 connectedDevices[i][ResponseField[type]] = ErrorPayload)
                => /\ ListDevices.status = "ok"
                   /\ GetDevice(connectedDevices[i].id).status = "ok"
                   /\ connectedDevices[i].contacts = ErrorPayload
                         => /\ GetDevice(connectedDevices[i].id).contacts = ErrorPayload
                            /\ ContactsDownload(connectedDevices[i].id).status = "ok"
                   /\ connectedDevices[i].sms = ErrorPayload
                         => /\ GetDevice(connectedDevices[i].id).sms = ErrorPayload
                            /\ SmsDownload(connectedDevices[i].id).error = "denied"
                   /\ connectedDevices[i].callLog = ErrorPayload
                         => CallLogDownload(connectedDevices[i].id).calls = ErrorPayload)
    /\ [][msgCount' # msgCount =>
             \A c \in Conns, data \in SnapshotPayloads :
                (/\ data.error # ""
                 /\ BoundId(connectedDevices, c) # ""
                 /\ handleAppsResponse(c, data))
                   => /\ "error" \in DOMAIN GetApps(BoundId(connectedDevices, c))'
                      /\ GetApps(BoundId(connectedDevices, c))'.error = data.error]_vars

\* everything the hub keeps about one deviceId
DeviceView(id) ==
    [history |-> IF Has(deviceHistory, id) THEN Get(deviceHistory, id) ELSE <<>>,
     session |-> IF Has(connectedDevices, id) THEN Get(connectedDevices, id) ELSE <<>>,
     screenshot |-> CacheOf(deviceScreenshots, id),
     clipboard |-> CacheOf(deviceClipboard, id),
     notifications |-> CacheOf(deviceNotifications, id),
     apps |-> CacheOf(deviceApps, id),
     permissions |-> CacheOf(devicePermissions, id),
     wifi |-> CacheOf(deviceWifi, id)]

\* a response message of some kind is handled on connection c
ResponseOn(c) ==
    \/ \E type \in ResponseTypes : \E data \in ResponsePayloads[type] :
          FieldResponse(c, type, data)
    \/ \E data \in DirectoryPayloads : DirectoryResponse(c, data)
    \/ \E data \in ScreenshotPayloads : handleScreenshotResponse(c, data)

\* C26 as stated: no inbound message on connection c, a register included,
\* changes the history, the session or a cache of a device whose session is
\* bound to another connection (read from the device: when what the hub
\* keeps about a device changes, the step is no message on another
\* connection).
C26_OtherDevicesUntouched ==
    [][stores' # stores =>
          \A i \in 1..Len(connectedDevices) :
             (/\ connectedDevices[i].ws \in Conns
              /\ DeviceView(connectedDevices[i].id)' # DeviceView(connectedDevices[i].id))
                => \A c \in Conns \ {connectedDevices[i].ws} :
                      /\ ~ResponseOn(c)
                      /\ ~ \E data \in RegisterPayloads : Register(c, data)]_vars

\* C26 amended: no inbound message on connection c changes the history, the
\* session or a cache of a device whose session is bound to another
\* connection, except a register that names that device's own deviceId,
\* which takes the session over.
C26_OnlyRegisterTakesOver ==
    [][stores' # stores =>
          \A i \in 1..Len(connectedDevices) :
             (/\ connectedDevices[i].ws \in Conns
              /\ DeviceView(connectedDevices[i].id)' # DeviceView(connectedDevices[i].id))
                => \A c \in Conns \ {connectedDevices[i].ws} :
                      /\ ~ResponseOn(c)
                      /\ \A data \in RegisterPayloads :
                            Register(c, data)
                               => RegisterId(data, now) = connectedDevices[i].id]_vars

\* two devices on two open connections: one has answered, the other's
\* session still holds what its registration stored
C26_Witness ==
    \E i, j \in 1..Len(connectedDevices) :
       /\ connectedDevices[i].ws \in Conns /\ connectedDevices[j].ws \in Conns
       /\ connectedDevices[i].ws # connectedDevices[j].ws
       /\ connState[connectedDevices[i].ws] = "open"
       /\ connState[connectedDevices[j].ws] = "open"
       /\ connectedDevices[i].location = "loc1"
       /\ connectedDevices[i].lastSeen > connectedDevices[j].lastSeen
       /\ SessionData(connectedDevices[j]) =
             [location |-> Null, contacts |-> EmptyArray, files |-> EmptyArray,
              sms |-> EmptySms, callLog |-> EmptyArray, currentPath |-> DefaultPath]

\* C27: the histories are newest-first: a clipboard response puts its entry at
\* the head and keeps the earlier entries behind it in their order; a
\* notification batch is put ahead of all earlier entries in the batch's own
\* order; beyond the capacity only entries at the tail are dropped.
C27_NewestFirst ==
    [][(deviceClipboard' # deviceClipboard \/ deviceNotifications' # deviceNotifications) =>
          LET id == BoundId(connectedDevices, 1)
              oldC == CacheOf(deviceClipboard, id)
              oldN == CacheOf(deviceNotifications, id)
          IN
          /\ \A text \in {Inserted(allClipboard, 1) + 1} :
                handleClipboardResponse(1, text)
                   => /\ Len(deviceClipboard'[id]) = Min(Len(oldC) + 1, ClipboardCap)
                      /\ deviceClipboard'[id][1].text = text
                      /\ \A k \in 2..Len(deviceClipboard'[id]) :
                            deviceClipboard'[id][k] = oldC[k - 1]
          /\ \A n \in BatchSizes :
                handleNotificationsResponse(1, TRUE, Batch(Inserted(allNotifications, 1), n))
                   => /\ Len(deviceNotifications'[id]) = Min(Len(oldN) + n, NotificationsCap)
                      /\ \A k \in 1..Min(n, NotificationsCap) :
                            deviceNotifications'[id][k].n = Inserted(allNotifications, 1) + k
                      /\ \A k \in (n + 1)..Len(deviceNotifications'[id]) :
                            deviceNotifications'[id][k] = oldN[k - n]]_vars

\* both histories are full and a batch of several notifications, in its own
\* order, is at the head of the notification history
C27_Witness ==
    \E id \in DOMAIN deviceClipboard \cap DOMAIN deviceNotifications :
       /\ Len(deviceClipboard[id]) = ClipboardCap
       /\ deviceClipboard[id][1].text > ClipboardCap
       /\ Len(deviceNotifications[id]) = NotificationsCap
       /\ deviceNotifications[id][1].n > NotificationsCap \div 2
       /\ deviceNotifications[id][2].n = deviceNotifications[id][1].n + 1
       /\ deviceNotifications[id][NotificationsCap].n < deviceNotifications[id][1].n

\* C28: responses carry no identifier of the command they answer.  When the
\* answer to an earlier browse command is processed after a later command
\* for another path was accepted for the same device, the hub stores the
\* path and the files of the earlier command: the session then shows p1
\* although p2 was accepted last.
C28_ResponsesAreNotCorrelated ==
    [][browses' # browses =>
          \A id \in DOMAIN browses :
             (/\ Answer(id)
              /\ BoundId(connectedDevices, Pending(id).to) = id
              /\ Pending(id).path # LastAccepted(id))
                => /\ Get(connectedDevices', id).currentPath = Pending(id).path
                   /\ Get(connectedDevices', id).files = FilesAt(Pending(id).path)
                   /\ Get(connectedDevices', id).currentPath # LastAccepted(id)']_vars

\* two browse commands p1, p2 were accepted for one device on one connection,
\* only the first is answered: currentPath and files are those of p1
C28_Witness ==
    \E id \in DOMAIN browses :
       /\ Len(browses[id].sent) = 2 /\ browses[id].answered = 1
       /\ browses[id].sent[1].path # browses[id].sent[2].path
       /\ browses[id].sent[1].to = browses[id].sent[2].to
       /\ regCount[id] = 1
       /\ Get(connectedDevices, id).ws = browses[id].sent[2].to
       /\ Get(connectedDevices, id).isOnline
       /\ LastAccepted(id) = browses[id].sent[2].path
       /\ Get(connectedDevices, id).currentPath = browses[id].sent[1].path
       /\ Get(connectedDevices, id).files = FilesAt(browses[id].sent[1].path)

\* C29: a register without deviceId gets the id "<deviceName>-<now>", and
\* that id is new: no history record and no session exists under it, so the
\* record it creates starts with totalConnections = 1 and no existing
\* session is replaced.
C29_GeneratedIdIsFresh ==
    [][regCount' # regCount =>
          \A c \in Conns, data \in RegisterPayloads :
             (data.deviceId = "" /\ Register(c, data))
                => /\ RegisterId(data, now) = data.deviceName \o "-" \o ToString(now)
                   /\ ~Has(deviceHistory, RegisterId(data, now))
                   /\ ~Has(connectedDevices, RegisterId(data, now))
                   /\ Get(deviceHistory', RegisterId(data, now)).totalConnections = 1
                   /\ Len(connectedDevices') = Len(connectedDevices) + 1]_vars

\* C30: in every reachable state a session is online only if the connection
\* it is bound to is open: once a connection has closed no session bound to
\* it is online, also when the connection registered several deviceIds.
C30_OnlineOnlyOnOpenConnection ==
    \A i \in 1..Len(connectedDevices) :
       connectedDevices[i].isOnline
          => /\ connectedDevices[i].ws \in Conns
             /\ connState[connectedDevices[i].ws] = "open"

\* ------------------------------------------------ every kind of response
\* handleMicrophoneResponse(ws, data): device.microphoneData = data, a key
\* the session gets with its first recording; lastSeen is left alone
MicrophonePayloads == {"rec1"}

handleMicrophoneResponse(c, data) ==
    LET i == FirstBound(connectedDevices, c) IN
    /\ connState[c] = "open"
    /\ connectedDevices' =
          IF i = 0 THEN connectedDevices
          ELSE [connectedDevices EXCEPT ![i] = [microphoneData |-> data] @@ @]
    /\ UNCHANGED <<now, connState, deviceHistory, deviceScreenshots, deviceClipboard,
                   deviceNotifications, regCount, regConn, allClipboard, allNotifications,
                   handled, browses, snapshots>>
    /\ UNCHANGED client
ClipboardTexts == {"txt1"}

NotificationBatches == {<<"n1">>}

\* a response message of any kind is handled on connection c
InboundOn(c) ==
    \/ \E type \in ResponseTypes : \E data \in ResponsePayloads[type] :
          FieldResponse(c, type, data)
    \/ \E data \in DirectoryPayloads : DirectoryResponse(c, data)
    \/ \E data \in ScreenshotPayloads : handleScreenshotResponse(c, data)
    \/ \E data \in MicrophonePayloads : handleMicrophoneResponse(c, data)
    \/ \E data \in ClipboardTexts : handleClipboardResponse(c, data)
    \/ \E batch \in NotificationBatches : handleNotificationsResponse(c, TRUE, batch)
    \/ handleNotificationsResponse(c, FALSE, <<>>)
    \/ \E data \in SnapshotPayloads : handleAppsResponse(c, data)
    \/ \E data \in SnapshotPayloads : handlePermissionsResponse(c, data)
    \/ \E data \in SnapshotPayloads : handleWifiResponse(c, data)

\* connections, registrations under a supplied id, and every response the
\* dispatcher stores, on every connection
NextInbound ==
    \/ Tick
    \/ Connections
    \/ Registers(PlainPayloads, MaxRegsData)
    \/ \E c \in Conns : Counted /\ InboundOn(c) /\ UNCHANGED browses

SpecInbound == Init /\ [][NextInbound]_vars

\* C31: a response message handled on a connection to which no session is
\* bound (FirstBound finds none) changes no store: the history, the sessions
\* and every cache are what they were.
C31_UnboundResponseStoresNothing ==
    [][\A c \in Conns :
          (BoundId(connectedDevices, c) = "" /\ InboundOn(c)) => stores' = stores]_vars

\* responses were handled while no device had ever registered
C31_Witness ==
    /\ msgCount = MaxMsgs
    /\ Len(connectedDevices) = 0
    /\ \E c \in Conns : connState[c] = "open"

\* C32: a relay command other than browse-directory, answered with any
\* status, changes nothing the hub keeps: the history, every session and
\* every cache are as before, whatever device it names (read from the stores:
\* a step that changes one of them is no such command).
C32_RelayStoresNothing ==
    [][stores' # stores =>
          \A kind \in CommandKinds \ {"browse-directory"}, id \in RelayTargets :
             ~Relay(kind, id, "")]_vars

\* one device that accepts a command (one message is written to its open
\* connection) beside one whose commands are rejected as offline
C32_Witness ==
    \E i, j \in 1..Len(connectedDevices) :
       /\ connectedDevices[i].isOnline
       /\ connectedDevices[i].ws \in Conns
       /\ connState[connectedDevices[i].ws] = "open"
       /\ RelayReply("take-screenshot", connectedDevices[i].id, TRUE, FALSE) =
             Reply("ok", <<[to |-> connectedDevices[i].ws, type |-> "take_screenshot"]>>)
       /\ ~connectedDevices[j].isOnline
       /\ RelayReply("request-clipboard", connectedDevices[j].id, TRUE, FALSE).status
             = "Unavailable"
       /\ RelayReply("download-file", UnknownId, TRUE, FALSE).status = "NotFound"

\* the statuses of a browse-directory command the route rejects: 404 for a
\* deviceId without a session, 400 for an offline device
Rejected(id) ==
    RelayReply("browse-directory", id, TRUE, FALSE).status \in {"NotFound", "Unavailable"}

\* C33: a browse-directory command that is rejected, for an unknown deviceId
\* or an offline device, leaves the currentPath of the device and everything
\* else the hub stores as it was.
C33_RejectedBrowseStoresNothing ==
    /\ [](\A id \in RelayTargets, path \in RelayPaths :
             Rejected(id) => RelaySessions("browse-directory", id, path) = connectedDevices)
    /\ [][stores' # stores =>
             \A id \in RelayTargets, path \in RelayPaths :
                Relay("browse-directory", id, path) => ~Rejected(id)]_vars

\* a device that went offline after a browse command had set its currentPath:
\* the next browse command is rejected, as is one for an unknown deviceId
C33_Witness ==
    /\ \E i \in 1..Len(connectedDevices) :
          /\ ~connectedDevices[i].isOnline
          /\ connectedDevices[i].currentPath \in RelayPaths
          /\ Rejected(connectedDevices[i].id)
    /\ Rejected(UnknownId)

\* C34: in every reachable state the deviceIds that have a session are the
\* deviceIds that have a history record.
C34_SessionsAreTheHistory == Keys(connectedDevices) = Keys(deviceHistory)

\* two devices are known, one of them offline after the close of its
\* connection, the other registered more than once
C34_Witness ==
    /\ Len(connectedDevices) = MaxDevices
    /\ \E i \in 1..Len(connectedDevices) : ~connectedDevices[i].isOnline
    /\ \E id \in DOMAIN regCount : regCount[id] > 1

\* the caches the hub keeps per device beside its session and its history
caches == <<deviceScreenshots, deviceClipboard, deviceNotifications, snapshots>>

\* C35: each cache changes only in a step that handles a response of its own
\* category; the close of a connection and a registration, of a new or of a
\* known deviceId, leave every cache as it was, while the registration resets
\* the data fields of the session.
C35_CachesChangeWithTheirResponses ==
    [][caches' # caches =>
          /\ deviceScreenshots' # deviceScreenshots
                => \E c \in Conns, data \in ScreenshotPayloads :
                      handleScreenshotResponse(c, data)
          /\ deviceClipboard' # deviceClipboard
                => \E c \in Conns, data \in ClipboardTexts : handleClipboardResponse(c, data)
          /\ deviceNotifications' # deviceNotifications
                => \E c \in Conns :
                      \/ \E batch \in NotificationBatches :
                            handleNotificationsResponse(c, TRUE, batch)
                      \/ handleNotificationsResponse(c, FALSE, <<>>)
          /\ deviceApps' # deviceApps
                => \E c \in Conns, data \in SnapshotPayloads : handleAppsResponse(c, data)
          /\ devicePermissions' # devicePermissions
                => \E c \in Conns, data \in SnapshotPayloads :
                      handlePermissionsResponse(c, data)
          /\ deviceWifi' # deviceWifi
                => \E c \in Conns, data \in SnapshotPayloads : handleWifiResponse(c, data)
          /\ \A c \in Conns : ~Close(c)
          /\ \A c \in Conns, data \in RegisterPayloads : ~Register(c, data)]_vars

\* a device stored a screenshot and a clipboard entry, registered again
\* (latestScreenshot of its session is null again) and its connection has
\* closed: both caches still hold what the responses stored
C35_Witness ==
    \E id \in DOMAIN regCount \cap DOMAIN deviceScreenshots \cap DOMAIN deviceClipboard :
       /\ regCount[id] = 2
       /\ deviceScreenshots[id].data # Undefined
       /\ Len(deviceClipboard[id]) = 1
       /\ Get(connectedDevices, id).latestScreenshot = NoDate
       /\ ~Get(connectedDevices, id).isOnline

\* ------------------------------------- the device app: auto-reconnect hook
\* useDeviceConnection(serverIP, serverPort, autoReconnect) of
\* src/hooks/useDeviceConnection.ts, with a server address given (without
\* one connect() returns at once).  A socket is its index in sockets.
hub == <<now, connState, stores, ghosts>>

ReadyStates == {"connecting", "open", "closing", "closed"}

\* WebSocket.close(): a socket that is connecting or open starts closing,
\* its close event is delivered later
CloseSocket(sockets, s) ==
    IF s # 0 /\ sockets[s] \in {"connecting", "open"}
    THEN [sockets EXCEPT ![s] = "closing"]
    ELSE sockets

\* connect(deviceName): new WebSocket(wsUrl); wsRef.current = ws
NewSocket(h, deviceName) ==
    [h EXCEPT !.deviceNameRef = OrElse(deviceName, "Unknown Device"),
              !.sockets = Append(@, "connecting"),
              !.wsRef = Len(h.sockets) + 1]

\* connect(deviceName), called by the app
RhConnect(deviceName) ==
    /\ Len(reconnectHook.sockets) < MaxSockets
    /\ reconnectHook' = [NewSocket(reconnectHook, deviceName) EXCEPT !.disconnected = FALSE]
    /\ UNCHANGED <<hub, heartbeatHook, deviceManager>>

\* ws.onopen: the socket is open and the registration is written to it
RhOpen(s) ==
    /\ reconnectHook.sockets[s] = "connecting"
    /\ reconnectHook' = [reconnectHook EXCEPT !.sockets[s] = "open"]
    /\ UNCHANGED <<hub, heartbeatHook, deviceManager>>

\* scheduleReconnect(): clearTimeout of the timer set before, setTimeout(.., 5000)
scheduleReconnect(h) == [h EXCEPT !.reconnectTimeoutRef = "pending"]

\* ws.onclose, for a close by the server or the network, a failed connection
\* attempt, or the close event that follows close()
RhClose(s) ==
    /\ reconnectHook.sockets[s] \in {"connecting", "open", "closing"}
    /\ reconnectHook' =
          LET h == [reconnectHook EXCEPT !.sockets[s] = "closed"]
          IN IF h.autoReconnect /\ h.deviceNameRef # "" THEN scheduleReconnect(h) ELSE h
    /\ UNCHANGED <<hub, heartbeatHook, deviceManager>>

\* disconnect(), called by the app or by the cleanup of the effect
RhDisconnect ==
    /\ reconnectHook' =
          [reconnectHook EXCEPT
              !.reconnectTimeoutRef = "null",
              !.sockets = CloseSocket(@, reconnectHook.wsRef),
              !.wsRef = 0,
              !.disconnected = TRUE]
    /\ UNCHANGED <<hub, heartbeatHook, deviceManager>>

\* the callback of the reconnect timer: connect(deviceNameRef.current)
RhTimer ==
    /\ reconnectHook.reconnectTimeoutRef = "pending"
    /\ Len(reconnectHook.sockets) < MaxSockets
    /\ reconnectHook' =
          LET h == [reconnectHook EXCEPT !.reconnectTimeoutRef = "fired"]
          IN IF h.deviceNameRef # "" THEN NewSocket(h, h.deviceNameRef) ELSE h
    /\ UNCHANGED <<hub, heartbeatHook, deviceManager>>

\* both values of the hook's autoReconnect parameter
InitReconnect ==
    /\ InitHub
    /\ reconnectHook \in {NewReconnectHook(a) : a \in BOOLEAN}
    /\ heartbeatHook = NewHeartbeatHook
    /\ deviceManager = NewDeviceManager

NextReconnect ==
    \/ \E deviceName \in DeviceNames \cup {""} : RhConnect(deviceName)
    \/ \E s \in 1..Len(reconnectHook.sockets) : RhOpen(s)
    \/ \E s \in 1..Len(reconnectHook.sockets) : RhClose(s)
    \/ RhDisconnect
    \/ RhTimer

SpecReconnect == InitReconnect /\ [][NextReconnect]_vars

\* C36: after disconnect() and until the next connect() call the hook makes
\* no connection attempt and has no reconnect timer pending, with
\* autoReconnect enabled and the close event delivered after disconnect()
\* returned.
C36_DisconnectStopsReconnecting ==
    /\ [](reconnectHook.disconnected => reconnectHook.reconnectTimeoutRef # "pending")
    /\ [][(reconnectHook.disconnected /\ reconnectHook'.disconnected)
             => Len(reconnectHook'.sockets) = Len(reconnectHook.sockets)]_vars

\* C37: at most one WebSocket of the hook is connecting or open at any time.
C37_OneLiveSocket ==
    Cardinality({s \in 1..Len(reconnectHook.sockets) :
                    reconnectHook.sockets[s] \in {"connecting", "open"}}) <= 1

\* ----------------------------------------- the device app: heartbeat hook
\* useDeviceConnection() of src/hooks/useDeviceConnection.ts, line 799 on.
\* connect and reconnect are closures of one render: the connectionState
\* they test is the one that render saw (rendered), also when reconnect()
\* calls connect() two seconds after it was itself called.
Connected == [isConnecting |-> FALSE, isConnected |-> TRUE]

\* startHeartbeat(): heartbeatIntervalRef.current = setInterval(.., 30000)
startHeartbeat(h) ==
    [h EXCEPT !.intervalsSet = @ + 1,
              !.heartbeatIntervalRef = h.intervalsSet + 1,
              !.intervals = @ \cup {h.intervalsSet + 1}]

\* stopHeartbeat(): clearInterval of the interval the ref holds
stopHeartbeat(h) ==
    IF h.heartbeatIntervalRef # 0
    THEN [h EXCEPT !.intervals = @ \ {h.heartbeatIntervalRef}, !.heartbeatIntervalRef = 0]
    ELSE h

\* connect(serverIP, serverPort) in a render that saw the state seen
connectSeeing(h, seen) ==
    IF seen.isConnecting \/ seen.isConnected THEN h
    ELSE [h EXCEPT !.connectionState.isConnecting = TRUE,
                   !.sockets = Append(@, "connecting"),
                   !.connectionTimeouts = @ \cup {Len(h.sockets) + 1}]

\* connect(), called by the app
HbConnect ==
    /\ Len(heartbeatHook.sockets) < MaxBeatSockets
    /\ heartbeatHook' = connectSeeing(heartbeatHook, heartbeatHook.rendered)
    /\ UNCHANGED <<hub, reconnectHook, deviceManager>>

\* React renders the component again with the state that was set
HbRender ==
    /\ heartbeatHook.rendered # heartbeatHook.connectionState
    /\ heartbeatHook' = [heartbeatHook EXCEPT !.rendered = heartbeatHook.connectionState]
    /\ UNCHANGED <<hub, reconnectHook, deviceManager>>

\* ws.onopen
HbOpen(s) ==
    /\ heartbeatHook.sockets[s] = "connecting"
    /\ heartbeatHook' =
          startHeartbeat([heartbeatHook EXCEPT !.sockets[s] = "open",
                                               !.connectionTimeouts = @ \ {s},
                                               !.wsRef = s,
                                               !.connectionState = Connected])
    /\ UNCHANGED <<hub, reconnectHook, deviceManager>>

\* ws.onerror
HbError(s) ==
    /\ heartbeatHook.sockets[s] \in {"connecting", "open"}
    /\ heartbeatHook' = [heartbeatHook EXCEPT !.connectionTimeouts = @ \ {s},
                                              !.connectionState.isConnecting = FALSE]
    /\ UNCHANGED <<hub, reconnectHook, deviceManager>>

\* ws.onclose
HbClose(s) ==
    /\ heartbeatHook.sockets[s] \in {"connecting", "open", "closing"}
    /\ heartbeatHook' =
          [stopHeartbeat([heartbeatHook EXCEPT !.sockets[s] = "closed",
                                               !.connectionTimeouts = @ \ {s}])
             EXCEPT !.wsRef = 0, !.connectionState = Disconnected]
    /\ UNCHANGED <<hub, reconnectHook, deviceManager>>

\* the callback of connectionTimeout: ws.close()
HbTimeout(s) ==
    /\ s \in heartbeatHook.connectionTimeouts
    /\ heartbeatHook' = [heartbeatHook EXCEPT !.sockets = CloseSocket(@, s),
                                              !.connectionTimeouts = @ \ {s},
                                              !.connectionState.isConnecting = FALSE]
    /\ UNCHANGED <<hub, reconnectHook, deviceManager>>

\* disconnect()
HbDisconnect ==
    /\ heartbeatHook' =
          [stopHeartbeat([heartbeatHook EXCEPT !.sockets = CloseSocket(@, heartbeatHook.wsRef)])
             EXCEPT !.connectionState = Disconnected]
    /\ UNCHANGED <<hub, reconnectHook, deviceManager>>

\* the callback of a heartbeat interval
HbBeat(i) ==
    /\ i \in heartbeatHook.intervals
    /\ heartbeatHook' =
          IF heartbeatHook.wsRef # 0 /\ heartbeatHook.sockets[heartbeatHook.wsRef] = "open"
          THEN [heartbeatHook EXCEPT !.pinged = heartbeatHook.sockets[heartbeatHook.wsRef]]
          ELSE heartbeatHook
    /\ UNCHANGED <<hub, reconnectHook, deviceManager>>

\* reconnect(), called by the app: it waits two seconds
HbReconnect ==
    /\ Len(heartbeatHook.sockets) + Len(heartbeatHook.reconnects) < MaxBeatSockets
    /\ ~heartbeatHook.rendered.isConnecting
    /\ heartbeatHook' = [heartbeatHook EXCEPT !.reconnects = Append(@, heartbeatHook.rendered)]
    /\ UNCHANGED <<hub, reconnectHook, deviceManager>>

\* reconnect() after its two seconds: return connect(serverIP, serverPort)
HbReconnectElapsed ==
    /\ heartbeatHook.reconnects # <<>>
    /\ Len(heartbeatHook.sockets) < MaxBeatSockets
    /\ heartbeatHook' =
          connectSeeing([heartbeatHook EXCEPT !.reconnects = Tail(@)],
                        Head(heartbeatHook.reconnects))
    /\ UNCHANGED <<hub, reconnectHook, deviceManager>>

NextHeartbeat ==
    \/ HbConnect
    \/ HbRender
    \/ \E s \in 1..Len(heartbeatHook.sockets) : HbOpen(s)
    \/ \E s \in 1..Len(heartbeatHook.sockets) : HbError(s)
    \/ \E s \in 1..Len(heartbeatHook.sockets) : HbClose(s)
    \/ \E s \in 1..Len(heartbeatHook.sockets) : HbTimeout(s)
    \/ HbDisconnect
    \/ \E i \in heartbeatHook.intervals : HbBeat(i)
    \/ HbReconnect
    \/ HbReconnectElapsed

SpecHeartbeat == Init /\ [][NextHeartbeat]_vars

\* the heartbeat hook has a socket that is connecting or open
LiveSocket ==
    \E s \in 1..Len(heartbeatHook.sockets) :
       heartbeatHook.sockets[s] \in {"connecting", "open"}

\* C38: a ping is written only to an open socket, at most one heartbeat
\* interval is set at a time, and none is set once the socket has closed or
\* disconnect() has been called.
C38_HeartbeatFollowsTheSocket ==
    /\ [](heartbeatHook.pinged \in {"", "open"})
    /\ [](Cardinality(heartbeatHook.intervals) <= 1)
    /\ [](~LiveSocket => heartbeatHook.intervals = {})
    /\ [][HbDisconnect => heartbeatHook'.intervals = {}]_vars

\* ------------------------------------------ the dashboard: DeviceManager
\* browseDirectory and goBackDirectory of src/unnamed/part_001, with a
\* device selected.  browseDirectory runs to its fetch in the caller's step
\* and from the response on in a later one.
DashboardPaths == {RootPath, "/a", "/a/b"}

\* browseDirectory(path) up to the fetch: nothing when the device is not
\* available; the current path is pushed when it differs from path
browseDirectory(m, path) ==
    IF ~m.isOnline THEN m
    ELSE [m EXCEPT !.pathHistory = IF m.currentPath # path THEN Append(@, m.currentPath) ELSE @,
                   !.requests = Append(@, path)]

\* a click on a folder: browseDirectory(file.path)
DmBrowse(path) ==
    /\ Len(deviceManager.pathHistory) < MaxHistory
    /\ Len(deviceManager.requests) < MaxPending
    /\ deviceManager' = browseDirectory(deviceManager, path)
    /\ UNCHANGED <<hub, reconnectHook, heartbeatHook>>

\* goBackDirectory(): pathHistory.pop(), then browseDirectory(previousPath)
goBackDirectory(m) ==
    IF Len(m.pathHistory) > 0
    THEN browseDirectory([m EXCEPT !.pathHistory = SubSeq(@, 1, Len(@) - 1)],
                         m.pathHistory[Len(m.pathHistory)])
    ELSE m

\* a click on go-back
DmGoBack ==
    /\ Len(deviceManager.requests) < MaxPending
    /\ deviceManager' = goBackDirectory(deviceManager)
    /\ UNCHANGED <<hub, reconnectHook, heartbeatHook>>

\* browseDirectory from the response of the hub on: when it is ok (the hub
\* has set the currentPath of the session) the current path is the path
\* requested; otherwise, and when fetch fails, only an alert is shown
DmResponse(ok) ==
    /\ deviceManager.requests # <<>>
    /\ deviceManager' =
          IF ok
          THEN [deviceManager EXCEPT !.currentPath = Head(deviceManager.requests),
                                     !.hubPath = Head(deviceManager.requests),
                                     !.requests = Tail(@)]
          ELSE [deviceManager EXCEPT !.requests = Tail(@)]
    /\ UNCHANGED <<hub, reconnectHook, heartbeatHook>>

\* selectDevice / renderFiles: the device is shown with the isOnline and the
\* currentPath the hub reports
DmRefresh(isOnline) ==
    /\ deviceManager' =
          [deviceManager EXCEPT !.isOnline = isOnline,
                                !.currentPath = OrElse(deviceManager.hubPath, @)]
    /\ UNCHANGED <<hub, reconnectHook, heartbeatHook>>

\* requestFiles, accepted: this.pathHistory = []
DmRequestFiles ==
    /\ deviceManager.isOnline
    /\ deviceManager' = [deviceManager EXCEPT !.pathHistory = <<>>]
    /\ UNCHANGED <<hub, reconnectHook, heartbeatHook>>

NextDashboard ==
    \/ \E path \in DashboardPaths : DmBrowse(path)
    \/ DmGoBack
    \/ \E ok \in BOOLEAN : DmResponse(ok)
    \/ \E isOnline \in BOOLEAN : DmRefresh(isOnline)
    \/ DmRequestFiles

SpecDashboard == Init /\ [][NextDashboard]_vars

\* C39: a goBackDirectory step with a recorded path requests the path
\* recorded last and leaves pathHistory one entry shorter than it found it.
C39_BackShortensTheHistory ==
    [][(deviceManager.pathHistory # <<>> /\ DmGoBack)
          => /\ Len(deviceManager'.pathHistory) = Len(deviceManager.pathHistory) - 1
             /\ deviceManager'.requests =
                   Append(deviceManager.requests,
                          deviceManager.pathHistory[Len(deviceManager.pathHistory)])]_vars

====
